---- MODULE Spec2Model ----
(***************************************************************************)
(* Model of the shape-deduplication / font-synthesis pipeline of abd:      *)
(*   make_font.py / count.py   counting, selection, representative search, *)
(*                             font assembly                               *)
(*   deduplicate2.py           page rewriter (text run + residual graphic) *)
(*   svg2pdf2.py               page reconstruction (render_text)           *)
(*                                                                         *)
(* Path data ("d" attribute) of the polygon tracer is modelled by its      *)
(* vertex list plus the number of trailing blanks; everything the code     *)
(* does with a path string (rstrip, hashing, bounding box, comparison)     *)
(* is a function of these two.                                             *)
(***************************************************************************)
EXTENDS Integers, Sequences, FiniteSets, TLC

(***************************************************************************)
(* Bounds of the model                                                     *)
(***************************************************************************)
MaxRun == 3
MaxShapes == 3
MaxPageLen == 2
MaxGlyphs == 108
MaxAdds == 4
MaxRawLen == 5
MaxPages == 2
MaxReports == 3
MaxShift == 2
MaxTail == 2
MaxDocPages == 3

(***************************************************************************)
(* Generic helpers                                                         *)
(***************************************************************************)
Range(s) == {s[k] : k \in 1..Len(s)}

SeqsUpTo(S, n) == UNION {[1..k -> S] : k \in 0..n}

(***************************************************************************)
(* Path data, digests, bounding boxes                                      *)
(***************************************************************************)
\* A path string of the polygon tracer: its vertices and its trailing blanks.
PathData(pts, pad) == [pts |-> pts, pad |-> pad]

\* path_element.get("d") of an element without a d attribute
None == PathData(<<>>, -1)

\* str.rstrip()
RStripKeep(d) == d
RStrip(d) == [d EXCEPT !.pad = 0]

\* StringMD5Counter.hash: the MD5 digest of the string handed over, taken as
\* collision-free: equal digests exactly for equal strings.
Hash(s) == [md5 |-> s]

\* svgelements.Path(d).bbox(): None (<<>>) for a path without segments, else
\* (xmin, ymin, xmax, ymax) over the vertices.
NoBBox == <<>>

MinOf(S) == CHOOSE m \in S : \A n \in S : m <= n
MaxOf(S) == CHOOSE m \in S : \A n \in S : m >= n

BBox(d) ==
    IF Len(d.pts) = 0 THEN NoBBox
    ELSE LET xs == {d.pts[k][1] : k \in 1..Len(d.pts)}
             ys == {d.pts[k][2] : k \in 1..Len(d.pts)}
         IN <<MinOf(xs), MinOf(ys), MaxOf(xs), MaxOf(ys)>>

\* Sample shapes: a 50x50 mark, the same text with a trailing blank, a mark
\* filling the 100x100 cell exactly, a 200x50 mark, a path without segments.
PathSmall == PathData(<<(<<0, 0>>), (<<50, 50>>)>>, 0)
PathSmallPadded == PathData(<<(<<0, 0>>), (<<50, 50>>)>>, 1)
PathCell == PathData(<<(<<0, 0>>), (<<100, 100>>)>>, 0)
PathWide == PathData(<<(<<0, 0>>), (<<200, 50>>)>>, 0)
PathEmpty == PathData(<<>>, 0)

(***************************************************************************)
(* make_font.py : codepoints, glyph size, font assembly                    *)
(***************************************************************************)
\* The fixed glyph cell of is_within_range
CellSize == 100

\* ord(" ") + 1
FirstCodePoint == 33

\* unicodedata.category(chr(n))[0] in ["L", "N", "P", "S"], for n < 768:
\* 0..32 are Cc/Zs, 127..159 Cc, 160 Zs, 173 Cf; everything else below 768
\* is a letter, a number, punctuation or a symbol.
UnicodeTableEnd == 768
NotLNPS == (0..32) \cup (127..160) \cup {173}

is_printable_ascii(n) == n \in 33..126
is_printable(n) == n \in (0..(UnicodeTableEnd - 1)) \ NotLNPS

is_within_range_strict(xmin, ymin, xmax, ymax) ==
    xmax - xmin < CellSize /\ ymax - ymin < CellSize
is_within_range(xmin, ymin, xmax, ymax) ==
    xmax - xmin <= CellSize /\ ymax - ymin <= CellSize

\* lines 148-150: code_point += 1; while not is_printable(code_point): += 1
RECURSIVE SkipUnprintable(_)
SkipUnprintable(n) ==
    IF is_printable(n) \/ n >= UnicodeTableEnd THEN n
    ELSE SkipUnprintable(n + 1)

AdvanceCodePointByOne(code_point) == code_point + 1
AdvanceCodePoint(code_point) == SkipUnprintable(code_point + 1)

\* dict assignment  dict[key] = value
DictPut(dict, key, value) == (key :> value) @@ dict

EmptyDict == <<>>

\* One iteration of the loop of create_font_from_memory_svgs (lines 123-150)
\* on the state st = [code_point, font_dict] for the glyph path d.
FontLoopBody(st, d) ==
    LET dbox == BBox(d) IN
    IF dbox = NoBBox THEN st
    ELSE IF ~is_within_range(dbox[1], dbox[2], dbox[3], dbox[4]) THEN st
    ELSE [code_point |-> AdvanceCodePoint(st.code_point),
          font_dict |-> DictPut(st.font_dict, Hash(d),
              [code_point |-> st.code_point, bbox |-> dbox])]

\* create_font_from_memory_svgs(glyphs): the font_dict it returns
RECURSIVE FontLoop(_, _, _)
FontLoop(st, glyphs, k) ==
    IF k > Len(glyphs) THEN st
    ELSE FontLoop(FontLoopBody(st, glyphs[k]), glyphs, k + 1)

create_font_from_memory_svgs(glyphs) ==
    FontLoop([code_point |-> FirstCodePoint, font_dict |-> EmptyDict],
             glyphs, 1).font_dict

(***************************************************************************)
(* svg2pdf2.py : render_text                                               *)
(*   uses_file  content of the page's <page>.json (the TextRun)            *)
(*   height     page height handed to render_text                          *)
(*   r_pc       position inside render_text                                *)
(*   font_uses_r  the list loaded from the file                            *)
(*   r_k        index of the next entry of font_uses[1:] to draw           *)
(*   px, py     previous entry's page-space coordinates                    *)
(*   text_tlm   start of the current text line (PDF text space)            *)
(*   text_tm    current glyph position (PDF text space)                    *)
(*   text_code  operators emitted into the text object                     *)
(*   canvas_text  text objects drawn on the canvas                         *)
(***************************************************************************)
VARIABLES uses_file, height, r_pc, font_uses_r, r_k, px, py,
          text_tlm, text_tm, text_code, canvas_text

rvars == <<uses_file, height, r_pc, font_uses_r, r_k, px, py,
           text_tlm, text_tm, text_code, canvas_text>>

\* Inputs of the reconstruction model
RunCodePoints == {65, 66}
RunXs == {10, 15}
RunYs == {20, 25}
PageHeights == {100, 60}
RunEntries == {<<c, x, y>> : c \in RunCodePoints, x \in RunXs, y \in RunYs}

\* glyph.width = 0 : every glyph of the synthesized font has advance 0
GlyphWidth == 0

\* text.setTextOrigin(x, y): "1 0 0 1 x y Tm"
SetTextOrigin(x, y) == <<x, y>>

\* The arguments render_text hands to text.moveCursor for the entry at
\* (x, y) following the entry at (ppx, ppy).
CursorArgsFlipped(x, y, ppx, ppy) == <<x - ppx, ppy - y>>
CursorArgs(x, y, ppx, ppy) == <<x - ppx, y - ppy>>

\* text.moveCursor(dx, dy) emits "dx -dy Td": the operand pair of Td.
TdOperandsUnflipped(dx, dy) == <<dx, dy>>
TdOperands(dx, dy) == <<dx, 0 - dy>>

\* Effect of "tx ty Td" on the line start; the glyph position is reset to it.
ApplyTd(tlm, td) == <<tlm[1] + td[1], tlm[2] + td[2]>>

\* text.textOut(chr(code_point)): "Tj" draws at the glyph position and
\* advances it by the glyph's width.
AfterTextOut(tm) == <<tm[1] + GlyphWidth, tm[2]>>

\* One operator of the text object: "Tm" (a = the origin set), "Td" (a = its
\* operand pair) or "Tj" (a = the position the glyph is drawn at).
TextOp(op, code_point, a) == [op |-> op, code_point |-> code_point, a |-> a]

RenderInit ==
    /\ uses_file \in SeqsUpTo(RunEntries, MaxRun)
    /\ height \in PageHeights
    /\ r_pc = "start"
    /\ font_uses_r = <<>>
    /\ r_k = 1
    /\ px = 0
    /\ py = 0
    /\ text_tlm = <<0, 0>>
    /\ text_tm = <<0, 0>>
    /\ text_code = <<>>
    /\ canvas_text = <<>>

\* lines 70-73: load the json, beginText(), setFont
RenderBegin ==
    /\ r_pc = "start"
    /\ font_uses_r' = uses_file
    /\ text_tlm' = <<0, 0>>
    /\ text_tm' = <<0, 0>>
    /\ text_code' = <<>>
    /\ r_pc' = "first"
    /\ UNCHANGED <<uses_file, height, r_k, px, py, canvas_text>>

\* lines 74-78: the first entry sets the text origin and is drawn
RenderFirst ==
    /\ r_pc = "first"
    /\ Len(font_uses_r) > 0
    /\ LET e == font_uses_r[1]
           o == SetTextOrigin(e[2], height - e[3])
       IN /\ text_tlm' = o
          /\ text_tm' = AfterTextOut(o)
          /\ text_code' = text_code \o
                 <<TextOp("Tm", 0, o), TextOp("Tj", e[1], o)>>
          /\ px' = e[2]
          /\ py' = e[3]
    /\ r_k' = 1
    /\ r_pc' = "loop"
    /\ UNCHANGED <<uses_file, height, font_uses_r, canvas_text>>

\* lines 79-82: one iteration over font_uses[1:]
RenderEntry ==
    /\ r_pc = "loop"
    /\ r_k + 1 <= Len(font_uses_r)
    /\ LET e == font_uses_r[r_k + 1]
           args == CursorArgs(e[2], e[3], px, py)
           td == TdOperands(args[1], args[2])
           o == ApplyTd(text_tlm, td)
       IN /\ text_tlm' = o
          /\ text_tm' = AfterTextOut(o)
          /\ text_code' = text_code \o
                 <<TextOp("Td", 0, td), TextOp("Tj", e[1], o)>>
          /\ px' = e[2]
          /\ py' = e[3]
    /\ r_k' = r_k + 1
    /\ UNCHANGED <<uses_file, height, r_pc, font_uses_r, canvas_text>>

\* line 83: pdf_canvas.drawText(text), reached with or without entries
RenderEnd ==
    /\ r_pc \in {"first", "loop"}
    /\ r_pc = "first" => Len(font_uses_r) = 0
    /\ r_pc = "loop" => r_k + 1 > Len(font_uses_r)
    /\ canvas_text' = Append(canvas_text, text_code)
    /\ r_pc' = "done"
    /\ UNCHANGED <<uses_file, height, font_uses_r, r_k, px, py,
                   text_tlm, text_tm, text_code>>

\* render_text (lines 69-83) as a function of the TextRun and the page
\* height: the operators of the text object it draws. RenderRest is the
\* loop of lines 79-82 from entry k on, with the line start tlm and the
\* previous entry's coordinates (ppx, ppy).
RECURSIVE RenderRest(_, _, _, _, _)
RenderRest(uses, k, tlm, ppx, ppy) ==
    IF k > Len(uses) THEN <<>>
    ELSE LET e == uses[k]
             args == CursorArgs(e[2], e[3], ppx, ppy)
             td == TdOperands(args[1], args[2])
             o == ApplyTd(tlm, td)
         IN <<TextOp("Td", 0, td), TextOp("Tj", e[1], o)>>
               \o RenderRest(uses, k + 1, o, e[2], e[3])

render_text(uses, page_height) ==
    IF Len(uses) = 0 THEN <<>>
    ELSE LET e == uses[1]
             o == SetTextOrigin(e[2], page_height - e[3])
         IN <<TextOp("Tm", 0, o), TextOp("Tj", e[1], o)>>
               \o RenderRest(uses, 2, o, e[2], e[3])

\* The glyphs drawn so far, and the cursor moves made so far, in order.
DrawnGlyphs == SelectSeq(text_code, LAMBDA o : o.op = "Tj")
CursorMoves == SelectSeq(text_code, LAMBDA o : o.op = "Td")

\* C1: for every TextRun and page height H, the first glyph is placed at
\* (x0, H - y0); before drawing entry i > 0 the cursor is moved by
\* (x_i - x_(i-1), -(y_i - y_(i-1))) in text space, so entry i is drawn at
\* (x_i, H - y_i) with its own codepoint; the run [[65,10,20],[66,15,25]]
\* with H = 100 gives origin (10,80), delta (5,-5), landing (15,75); an
\* empty TextRun draws no glyph.
C1_RenderPositions ==
    /\ Len(DrawnGlyphs) <= Len(uses_file)
    /\ r_pc = "done" => Len(DrawnGlyphs) = Len(uses_file)
    /\ \A j \in 1..Len(DrawnGlyphs) :
          /\ DrawnGlyphs[j].code_point = uses_file[j][1]
          /\ DrawnGlyphs[j].a = <<uses_file[j][2], height - uses_file[j][3]>>
    /\ Len(DrawnGlyphs) > 0 =>
          /\ text_code[1] = TextOp("Tm", 0,
                 <<uses_file[1][2], height - uses_file[1][3]>>)
          /\ Len(CursorMoves) = Len(DrawnGlyphs) - 1
    /\ \A j \in 1..Len(CursorMoves) :
          CursorMoves[j].a = <<uses_file[j + 1][2] - uses_file[j][2],
                               0 - (uses_file[j + 1][3] - uses_file[j][3])>>
    /\ (r_pc = "done" /\ height = 100
            /\ uses_file = <<(<<65, 10, 20>>), (<<66, 15, 25>>)>>) =>
          canvas_text = << <<TextOp("Tm", 0, <<10, 80>>),
                             TextOp("Tj", 65, <<10, 80>>),
                             TextOp("Td", 0, <<5, -5>>),
                             TextOp("Tj", 66, <<15, 75>>)>> >>

\* the run of the concrete case has been rendered to its end
C1_Witness ==
    /\ r_pc = "done"
    /\ height = 100
    /\ uses_file = <<(<<65, 10, 20>>), (<<66, 15, 25>>)>>
    /\ Len(DrawnGlyphs) = 2
    /\ DrawnGlyphs[2].a = <<15, 75>>

(***************************************************************************)
(* deduplicate2.py : deduplicate_svg, create_svg, make_path                *)
(*   in_svg     the page: its svg:path elements in document order          *)
(*   font_meta  FontMeta handed to the rewriter (digest -> glyph record)   *)
(*   d_pc       position inside deduplicate_svg                            *)
(*   path_idx   index of the next path element of the loop                 *)
(*   path_dict  dict d -> list of offsets, as its items in insertion order *)
(*   font_uses  the TextRun being built                                    *)
(*   svg_out_file, json_out_file  the two files written at the end         *)
(***************************************************************************)
VARIABLES in_svg, font_meta, d_pc, path_idx, path_dict, font_uses,
          svg_out_file, json_out_file

dvars == <<in_svg, font_meta, d_pc, path_idx, path_dict, font_uses,
           svg_out_file, json_out_file>>

\* An svg:path element: its d attribute (None when absent) and its
\* transform="translate(x,y)" attribute.
PathElement(d, x, y) == [d |-> d, transform |-> [x |-> x, y |-> y]]

\* extract_translate_coordinates: the (x, y) of "translate(x,y)"
extract_translate_coordinates(transform) == <<transform.x, transform.y>>

\* A file that has not been written
NoFile == [written |-> FALSE, content |-> <<>>]
File(content) == [written |-> TRUE, content |-> content]

\* Elements of the output svg. id = 0: no id attribute; coord = <<>>: no
\* transform / not a placement; href = 0: not a reference.
NoCoord == <<>>
SvgPath(d, coord, id) ==
    [tag |-> "path", d |-> d, coord |-> coord, id |-> id, href |-> 0]
SvgUse(coord, href) ==
    [tag |-> "use", d |-> None, coord |-> coord, id |-> 0, href |-> href]

\* make_path(root, d, coord, id): the element appended to root
make_path(d, coord, id) == SvgPath(d, coord, id)

\* Index of key d among the items of an insertion-ordered dict, 0 if absent
KeyIndex(items, d) ==
    IF \E k \in 1..Len(items) : items[k].d = d
    THEN CHOOSE k \in 1..Len(items) : items[k].d = d
    ELSE 0

\* the <use> elements of one dict item (lines 82-87)
UsesOf(uses, count) == [k \in 1..Len(uses) |-> SvgUse(uses[k], count)]

\* len(uses) == 1 (line 78)
IsSingleNever(uses) == FALSE
IsSingle(uses) == Len(uses) = 1

\* create_svg (lines 68-89): the loop over paths.items() from item k on,
\* svg = [defs, body] built so far, count = the next definition id.
RECURSIVE CreateSvgLoop(_, _, _, _)
CreateSvgLoop(paths, k, count, svg) ==
    IF k > Len(paths) THEN svg
    ELSE LET d == paths[k].d
             uses == paths[k].uses
         IN IF IsSingle(uses)
            THEN CreateSvgLoop(paths, k + 1, count,
                     [svg EXCEPT !.body = Append(@, make_path(d, uses[1], 0))])
            ELSE CreateSvgLoop(paths, k + 1, count + 1,
                     [defs |-> Append(svg.defs, make_path(d, NoCoord, count)),
                      body |-> svg.body \o UsesOf(uses, count)])

create_svg(paths) == CreateSvgLoop(paths, 1, 1, [defs |-> <<>>, body |-> <<>>])

\* lines 55-60: the occurrence of d at t goes to path_dict
RecordResidualLast(items, d, t) ==
    LET k == KeyIndex(items, d) IN
    IF k = 0 THEN Append(items, [d |-> d, uses |-> <<t>>])
    ELSE [items EXCEPT ![k].uses = <<t>>]
RecordResidual(items, d, t) ==
    LET k == KeyIndex(items, d) IN
    IF k = 0 THEN Append(items, [d |-> d, uses |-> <<t>>])
    ELSE [items EXCEPT ![k].uses = Append(@, t)]

\* font_uses.append([meta["code_point"], t[0], t[1]]) (line 54)
PrependUse(uses, e) == <<e>> \o uses
AppendUse(uses, e) == Append(uses, e)

\* "if meta:" on meta = font_meta.get(StringMD5Counter.hash(d)) (lines 51-52)
HasMetaNever(meta, h) == FALSE
HasMeta(meta, h) == h \in DOMAIN meta

\* Inputs of the rewriter model
PagePaths == {PathSmall, PathSmallPadded, PathCell, None}
Offsets == {<<10, 20>>, <<15, 25>>, <<0, 0>>}
PageElements == {PathElement(d, t[1], t[2]) : d \in PagePaths, t \in Offsets}
GlyphLists == {<<>>, <<PathSmall>>, <<PathCell>>, <<PathCell, PathSmall>>,
               <<PathWide, PathSmall>>}

DedupInit ==
    /\ in_svg \in SeqsUpTo(PageElements, MaxShapes)
    /\ font_meta \in {create_font_from_memory_svgs(g) : g \in GlyphLists}
    /\ d_pc = "start"
    /\ path_idx = 1
    /\ path_dict = <<>>
    /\ font_uses = <<>>
    /\ svg_out_file = NoFile
    /\ json_out_file = NoFile

\* lines 42-47
DedupBegin ==
    /\ d_pc = "start"
    /\ path_dict' = <<>>
    /\ font_uses' = <<>>
    /\ path_idx' = 1
    /\ d_pc' = "loop"
    /\ UNCHANGED <<in_svg, font_meta, svg_out_file, json_out_file>>

\* lines 48-60, one path element; an element without d raises at line 49
\* (None has no rstrip) and deduplicate_svg is left without writing.
DedupPath ==
    /\ d_pc = "loop"
    /\ path_idx <= Len(in_svg)
    /\ LET path_element == in_svg[path_idx] IN
       IF path_element.d = None
       THEN /\ d_pc' = "raised"
            /\ UNCHANGED <<path_idx, path_dict, font_uses>>
       ELSE LET d == RStrip(path_element.d)
                t == extract_translate_coordinates(path_element.transform)
                h == Hash(d)
            IN /\ d_pc' = "loop"
               /\ path_idx' = path_idx + 1
               /\ IF HasMeta(font_meta, h)
                  THEN /\ font_uses' = AppendUse(font_uses,
                              <<font_meta[h].code_point, t[1], t[2]>>)
                       /\ UNCHANGED path_dict
                  ELSE /\ UNCHANGED font_uses
                       /\ path_dict' = RecordResidual(path_dict, d, t)
    /\ UNCHANGED <<in_svg, font_meta, svg_out_file, json_out_file>>

\* lines 61-66
DedupWrite ==
    /\ d_pc = "loop"
    /\ path_idx > Len(in_svg)
    /\ svg_out_file' = File(create_svg(path_dict))
    /\ json_out_file' = File(font_uses)
    /\ d_pc' = "done"
    /\ UNCHANGED <<in_svg, font_meta, path_idx, path_dict, font_uses>>

(***************************************************************************)
(* make_font.py : crop_and_do_shape_stats, count_glyphs_and_save_svg,      *)
(*                find_glyphs_and_create_font, find_glyphs                 *)
(*   traced     tracer output per screenshot: base file name -> the d      *)
(*              attributes of its svg:path elements, in document order     *)
(*   limit      the count limit (threshold)                                *)
(*   b_pc       position inside crop_and_do_shape_stats                    *)
(*   png_files  the sorted list of screenshots                             *)
(*   count_idx  index of the next screenshot to count                      *)
(*   md5_count  StringMD5Counter.md5_count                                 *)
(*   svg_dir    the svg files saved so far: base file name -> page         *)
(*   to_ttf     the set built at line 52, mutated by find_glyphs           *)
(*   selected   the value to_ttf had when find_glyphs was called           *)
(*   scanned    the svg files find_glyphs has parsed, in order             *)
(***************************************************************************)
VARIABLES traced, limit, b_pc, png_files, count_idx, md5_count, svg_dir,
          to_ttf, selected, scanned

bvars == <<traced, limit, b_pc, png_files, count_idx, md5_count, svg_dir,
           to_ttf, selected, scanned>>

(***************************************************************************)
(* make_font.py : create_font_from_memory_svgs, as its loop                *)
(*   glyphs     the list handed to create_font_from_memory_svgs            *)
(*   f_pc       position inside create_font_from_memory_svgs               *)
(*   glyph_idx  index of the next glyph of the loop                        *)
(*   code_point the next codepoint to assign                               *)
(*   font_dict  digest -> {code_point, bbox}                               *)
(*   font_meta_file  <font>-meta.json                                      *)
(***************************************************************************)
VARIABLES glyphs, f_pc, glyph_idx, code_point, font_dict, font_meta_file

fvars == <<glyphs, f_pc, glyph_idx, code_point, font_dict, font_meta_file>>


(***************************************************************************)
(* md5counter.py : one StringMD5Counter instance and its callers           *)
(*   c_mode     "calls": single add_string calls; "scan": whole pages are  *)
(*              counted, in any order                                      *)
(*   c_pages    the pages to count: name -> d attributes of the paths      *)
(*   c_count    self.md5_count                                             *)
(*   c_log      the arguments add_string was called with, in call order    *)
(*   c_merged   the pages counted so far, in the order they were counted   *)
(***************************************************************************)
VARIABLES c_mode, c_pages, c_count, c_log, c_merged

cvars == <<c_mode, c_pages, c_count, c_log, c_merged>>


(***************************************************************************)
(* png2svg.py : round_svg_numbers, and the digest the counting site gives  *)
(* a traced shape.  Here a string is the sequence of its characters.       *)
(*   k_raw      two shape descriptions as the tracer returns them          *)
(*   k_pc       "raw", "once" (rounded, hashed), "twice" (rounded again)   *)
(*   k_once     round_svg_numbers of the two                               *)
(*   k_digest   the digests add_string computes for the two                *)
(*   k_twice    round_svg_numbers applied to k_once                        *)
(***************************************************************************)
VARIABLES k_raw, k_pc, k_once, k_digest, k_twice

kvars == <<k_raw, k_pc, k_once, k_digest, k_twice>>


(***************************************************************************)
(* screenshot2.py : main, the capture pipeline                             *)
(*   m_pc        position inside main                                      *)
(*   m_adb       the adb tool and the device answer                        *)
(*   m_remove_svg  args.remove_svg                                         *)
(*   m_pagesize  pagesize: 0 for None, else the page height                *)
(*   m_pngs      the screenshots taken, in order; each is the kind of page *)
(*               it shows ("ok"; "bad_png": the image cannot be opened;    *)
(*               "no_d": a traced path has no d, which the counting of     *)
(*               make_font.py skips and deduplicate_svg does not;          *)
(*               "no_drawing": svg2rlg gives no drawing for the svg)       *)
(*   m_counted   the screenshots counted into count                        *)
(*   m_svg_dir_exists, m_svg_dir  the svg directory: screenshot number ->  *)
(*               [svg: "traced" or "rewritten", json: the TextRun exists]  *)
(*   m_font_file the file <directory>.ttf exists                           *)
(*   m_font_path the variable font_path is set                             *)
(*   m_svg_files the sorted listing of line 200                            *)
(*   m_idx       index of the current file of the loop of line 203         *)
(*   m_tried     the pages deduplicate_svg / process_image_to_pdf_page     *)
(*               were called for                                           *)
(*   m_pdf_pages the pages completed with showPage, m_pdf_saved: saved     *)
(*   m_reports   the adb failure messages printed                          *)
(*   m_cancelled a KeyboardInterrupt ended the capture loop                *)
(*   m_abort     what ended the run early, "none" if nothing did           *)
(***************************************************************************)
VARIABLES m_pc, m_adb, m_remove_svg, m_pagesize, m_pngs, m_counted,
          m_svg_dir_exists, m_svg_dir, m_font_file, m_font_path,
          m_svg_files, m_idx, m_tried, m_pdf_pages, m_pdf_saved,
          m_reports, m_cancelled, m_abort

mvars == <<m_pc, m_adb, m_remove_svg, m_pagesize, m_pngs, m_counted,
           m_svg_dir_exists, m_svg_dir, m_font_file, m_font_path,
           m_svg_files, m_idx, m_tried, m_pdf_pages, m_pdf_saved,
           m_reports, m_cancelled, m_abort>>


(***************************************************************************)
(* make_font.py : create_font_from_memory_svgs, the outline of each glyph  *)
(*   o_glyphs   the representatives handed to the font assembly            *)
(*   o_pc       position inside create_font_from_memory_svgs               *)
(*   o_idx      index of the next representative of the loop               *)
(*   o_imported the svg documents handed to glyph.importOutlines, by the   *)
(*              index of their representative                              *)
(***************************************************************************)
VARIABLES o_glyphs, o_pc, o_idx, o_imported

ovars == <<o_glyphs, o_pc, o_idx, o_imported>>


(***************************************************************************)
(* screenshot2.py : main, the page size                                    *)
(*   z_crop_top, z_crop_bottom  args.crop_top, args.crop_bottom            *)
(*   z_pc       position inside main                                       *)
(*   z_pngs     the screenshots taken, in order: the (width, height) of    *)
(*              each image, <<>> for one that cannot be opened             *)
(*   z_pagesize pagesize: <<>> for None, else (width, height)              *)
(*   z_canvas   the pagesize the canvas was created with, as a one-element *)
(*              sequence; <<>> before line 196                             *)
(*   z_svg_files  the listing of line 200: the screenshots with an svg     *)
(*   z_idx      index of the current file of the loop of line 203          *)
(*   z_heights  the height handed to process_image_to_pdf_page, per page   *)
(***************************************************************************)
VARIABLES z_crop_top, z_crop_bottom, z_pc, z_pngs, z_pagesize, z_canvas,
          z_svg_files, z_idx, z_heights

zvars == <<z_crop_top, z_crop_bottom, z_pc, z_pngs, z_pagesize, z_canvas,
           z_svg_files, z_idx, z_heights>>


(***************************************************************************)
(* make_font.py, count.py : the scan of the pages into the counter         *)
(*   a_module   the module whose count_glyphs_and_save_svg is run          *)
(*   a_pages    the screenshots in sorted order: whether the image can be  *)
(*              opened and the path elements its tracing gives             *)
(*   a_pc       position inside crop_and_do_shape_stats                    *)
(*   a_idx      index of the next screenshot of the loop                   *)
(*   a_count    count.md5_count                                            *)
(*   a_saved    the screenshots whose svg file was written                 *)
(*   a_errors   the screenshots for which "Error processing" was printed   *)
(***************************************************************************)
VARIABLES a_module, a_pages, a_pc, a_idx, a_count, a_saved, a_errors

avars == <<a_module, a_pages, a_pc, a_idx, a_count, a_saved, a_errors>>


(***************************************************************************)
(* svg2pdf2.py : convert_to_pdf                                            *)
(*   p_pages    the svg files of the directory in sorted order: whether    *)
(*              svg2rlg gives a drawing and whether the json can be loaded *)
(*   p_pc       position inside convert_to_pdf                             *)
(*   p_idx      index of the next svg file of the loop                     *)
(*   p_code     what was drawn on the canvas since the last showPage       *)
(*   p_out      the pages of the document closed by showPage               *)
(*   p_errors   the files for which "Error processing" was printed         *)
(*   p_saved    pdf_canvas.save() was called                               *)
(***************************************************************************)
VARIABLES p_pages, p_pc, p_idx, p_code, p_out, p_errors, p_saved

pvars == <<p_pages, p_pc, p_idx, p_code, p_out, p_errors, p_saved>>

vars == <<rvars, dvars, bvars, fvars, cvars, kvars, mvars, ovars, zvars, avars, pvars>>

\* File names are strings of digits, compared as Python compares strings:
\* lexicographically, a proper prefix first.
RECURSIVE StrLess(_, _)
StrLess(a, b) ==
    IF Len(a) = 0 THEN Len(b) > 0
    ELSE IF Len(b) = 0 THEN FALSE
    ELSE IF a[1] # b[1] THEN a[1] < b[1]
    ELSE StrLess(Tail(a), Tail(b))

\* The number a string of digits denotes
RECURSIVE NumberOf(_)
NumberOf(a) ==
    IF Len(a) = 0 THEN 0 ELSE 10 * NumberOf(SubSeq(a, 1, Len(a) - 1)) + a[Len(a)]

NumLess(a, b) == NumberOf(a) < NumberOf(b)

\* The names of S in ascending string order / ascending numeric order
RECURSIVE SortedStr(_)
SortedStr(S) ==
    IF S = {} THEN <<>>
    ELSE LET m == CHOOSE x \in S : \A y \in S \ {x} : StrLess(x, y)
         IN <<m>> \o SortedStr(S \ {m})

RECURSIVE SortedNum(_)
SortedNum(S) ==
    IF S = {} THEN <<>>
    ELSE LET m == CHOOSE x \in S : \A y \in S \ {x} : NumLess(x, y)
         IN <<m>> \o SortedNum(S \ {m})

\* The orders os.listdir may return the names of a directory in
Listings(S) ==
    {l \in [1..Cardinality(S) -> S] : \A n \in S : \E k \in DOMAIN l : l[k] = n}

\* sorted([f for f in os.listdir(directory) ...]) on a listing
SortedNumeric(listing) == SortedNum(Range(listing))
Unsorted(listing) == listing
Sorted(listing) == SortedStr(Range(listing))

\* count.add_string(string) on md5_count (md5counter.py lines 13-27)
add_string_set_one(count, string) == DictPut(count, Hash(string), 1)
add_string(count, string) ==
    LET md5_hash == Hash(string) IN
    IF md5_hash \in DOMAIN count
    THEN [count EXCEPT ![md5_hash] = @ + 1]
    ELSE DictPut(count, md5_hash, 1)

\* count_glyphs_and_save_svg, lines 75-79: the loop over the path elements
RECURSIVE CountLoopOnce(_, _, _)
CountLoopOnce(count, page, k) ==
    IF k > Len(page) THEN count
    ELSE IF page[k] # None /\ Hash(RStrip(page[k])) \notin DOMAIN count
         THEN CountLoopOnce(add_string(count, RStrip(page[k])), page, k + 1)
         ELSE CountLoopOnce(count, page, k + 1)
RECURSIVE CountLoop(_, _, _)
CountLoop(count, page, k) ==
    IF k > Len(page) THEN count
    ELSE IF page[k] # None
         THEN CountLoop(add_string(count, RStrip(page[k])), page, k + 1)
         ELSE CountLoop(count, page, k + 1)

\* line 52: set([k for (k, v) in count.md5_count.items() if v >= limit])
SelectAbove(count, lim) == {k \in DOMAIN count : count[k] > lim}
Select(count, lim) == {k \in DOMAIN count : count[k] >= lim}

\* find_glyphs, lines 96-105: the loop over the path elements of one file on
\* st = [result, to_ttf, scanned]
RECURSIVE FindPathLoop(_, _, _)
FindPathLoop(st, page, k) ==
    IF k > Len(page) THEN st
    ELSE IF page[k] = None THEN FindPathLoop(st, page, k + 1)
    ELSE LET d == RStrip(page[k])
             h == Hash(d)
         IN IF h \in st.to_ttf
            THEN FindPathLoop([st EXCEPT !.result = Append(@, d),
                                         !.to_ttf = @ \ {h}], page, k + 1)
            ELSE FindPathLoop(st, page, k + 1)

\* lines 108-109: "if len(to_ttf) == 0: break", after the file was parsed
BreakNever(pending) == FALSE
BreakBeforeFile(pending) == pending = {}
BreakAfterFile(pending) == pending = {}

\* find_glyphs, lines 90-109: the loop over svg_files from file k on
RECURSIVE FindFileLoop(_, _, _, _)
FindFileLoop(st, svg_files, dir, k) ==
    IF k > Len(svg_files) THEN st
    ELSE LET st1 == [st EXCEPT !.scanned = Append(@, svg_files[k])]
             st2 == FindPathLoop(st1, dir[svg_files[k]], 1)
         IN IF BreakAfterFile(st2.to_ttf) THEN st2
            ELSE FindFileLoop(st2, svg_files, dir, k + 1)

\* find_glyphs(directory, to_ttf) on a listing of the directory
find_glyphs(listing, dir, wanted) ==
    FindFileLoop([result |-> <<>>, to_ttf |-> wanted, scanned |-> <<>>],
                 Sorted(listing), dir, 1)

\* crop_and_do_shape_stats, lines 37-46: the loop over the screenshots
RECURSIVE CountFilesLoop(_, _, _, _)
CountFilesLoop(count, files, pages, k) ==
    IF k > Len(files) THEN count
    ELSE CountFilesLoop(CountLoop(count, pages[files[k]], 1), files, pages, k + 1)

\* crop_and_do_shape_stats (lines 24-48) as a whole, for one order in which
\* os.listdir returns the screenshots and one in which it returns the svg
\* files: the font_dict of the run.
BuildFontMeta(corpus, lim, png_listing, svg_listing) ==
    LET count == CountFilesLoop(EmptyDict, Sorted(png_listing), corpus, 1)
        st == find_glyphs(svg_listing, corpus, Select(count, lim))
    IN create_font_from_memory_svgs(st.result)

\* Inputs of the font-build model
FileNames == {<<1, 0>>, <<2>>}
BuildPaths == {PathSmall, PathSmallPadded, PathCell, PathWide, None}
Limits == {1, 2, 3}
\* the number of shapes of a corpus that are the shape p
TimesIn(corpus, p) ==
    Cardinality({o \in UNION {{<<n, k>> : k \in 1..Len(corpus[n])} :
                                n \in DOMAIN corpus} : corpus[o[1]][o[2]] = p})
\* the corpora: up to two pages of up to MaxPageLen shapes, at most one shape
\* without a d attribute and at most one 200x50 shape among them
Corpora ==
    {c \in UNION {[names -> SeqsUpTo(BuildPaths, MaxPageLen)] :
                     names \in SUBSET FileNames} :
        TimesIn(c, None) <= 1 /\ TimesIn(c, PathWide) <= 1}

\* Inputs of the font-assembly model: MaxGlyphs distinct 50x50 marks, with
\* other marks (100x100, 200x50, 50x101, or the path without segments) at
\* some of the special positions.
SpecialPositions == {1, 2, 95}
NormalSize == <<50, 50>>
SpecialSizes == {NormalSize, <<100, 100>>, <<200, 50>>, <<50, 101>>, <<>>}
AssemblePath(i, size) ==
    IF size = <<>> THEN PathEmpty
    ELSE PathData(<<(<<i, 0>>), (<<i + size[1], size[2]>>)>>, 0)
AssembleLists ==
    {[i \in 1..MaxGlyphs |->
         AssemblePath(i, IF i \in SpecialPositions THEN sz[i] ELSE NormalSize)] :
       sz \in {f \in [SpecialPositions -> SpecialSizes] :
                  Cardinality({q \in SpecialPositions : f[q] = <<>>}) <= 1}}

RenderIdle ==
    /\ uses_file = <<>>
    /\ height = 0
    /\ r_pc = "idle"
    /\ font_uses_r = <<>>
    /\ r_k = 1
    /\ px = 0
    /\ py = 0
    /\ text_tlm = <<0, 0>>
    /\ text_tm = <<0, 0>>
    /\ text_code = <<>>
    /\ canvas_text = <<>>

DedupIdle ==
    /\ in_svg = <<>>
    /\ font_meta = EmptyDict
    /\ d_pc = "idle"
    /\ path_idx = 1
    /\ path_dict = <<>>
    /\ font_uses = <<>>
    /\ svg_out_file = NoFile
    /\ json_out_file = NoFile

BuildIdle ==
    /\ traced = EmptyDict
    /\ limit = 0
    /\ b_pc = "idle"
    /\ png_files = <<>>
    /\ count_idx = 1
    /\ md5_count = EmptyDict
    /\ svg_dir = EmptyDict
    /\ to_ttf = {}
    /\ selected = {}
    /\ scanned = <<>>

FontIdle ==
    /\ glyphs = <<>>
    /\ f_pc = "idle"
    /\ glyph_idx = 1
    /\ code_point = FirstCodePoint
    /\ font_dict = EmptyDict
    /\ font_meta_file = NoFile

BuildInit ==
    /\ traced \in Corpora
    /\ limit \in Limits
    /\ b_pc = "start"
    /\ png_files = <<>>
    /\ count_idx = 1
    /\ md5_count = EmptyDict
    /\ svg_dir = EmptyDict
    /\ to_ttf = {}
    /\ selected = {}
    /\ scanned = <<>>

\* crop_and_do_shape_stats, lines 26-36
BuildStart ==
    /\ b_pc = "start"
    /\ \E listing \in Listings(DOMAIN traced) :
          /\ png_files' = Sorted(listing)
          /\ b_pc' = IF Len(listing) = 0 THEN "done" ELSE "count"
    /\ md5_count' = EmptyDict
    /\ count_idx' = 1
    /\ UNCHANGED <<traced, limit, svg_dir, to_ttf, selected, scanned>>
    /\ UNCHANGED fvars

\* lines 37-46 with count_glyphs_and_save_svg (lines 61-84): one screenshot
BuildCountPage ==
    /\ b_pc = "count"
    /\ count_idx <= Len(png_files)
    /\ LET file_name == png_files[count_idx] IN
          /\ md5_count' = CountLoop(md5_count, traced[file_name], 1)
          /\ svg_dir' = DictPut(svg_dir, file_name, traced[file_name])
    /\ count_idx' = count_idx + 1
    /\ UNCHANGED <<traced, limit, b_pc, png_files, to_ttf, selected, scanned>>
    /\ UNCHANGED fvars

\* line 47 and find_glyphs_and_create_font line 52
BuildSelect ==
    /\ b_pc = "count"
    /\ count_idx > Len(png_files)
    /\ to_ttf' = Select(md5_count, limit)
    /\ selected' = Select(md5_count, limit)
    /\ b_pc' = "find"
    /\ UNCHANGED <<traced, limit, png_files, count_idx, md5_count, svg_dir, scanned>>
    /\ UNCHANGED fvars

\* line 53: glyphs = find_glyphs(svg_dir, to_ttf); line 54 calls
\* create_font_from_memory_svgs(glyphs, ...)
BuildFind ==
    /\ b_pc = "find"
    /\ \E listing \in Listings(DOMAIN svg_dir) :
          LET st == find_glyphs(listing, svg_dir, to_ttf) IN
          /\ glyphs' = st.result
          /\ to_ttf' = st.to_ttf
          /\ scanned' = st.scanned
    /\ b_pc' = "font"
    /\ f_pc' = "begin"
    /\ UNCHANGED <<traced, limit, png_files, count_idx, md5_count, svg_dir, selected>>
    /\ UNCHANGED <<glyph_idx, code_point, font_dict, font_meta_file>>

\* create_font_from_memory_svgs, lines 114-121
FontBegin ==
    /\ f_pc = "begin"
    /\ code_point' = FirstCodePoint
    /\ font_dict' = EmptyDict
    /\ glyph_idx' = 1
    /\ f_pc' = "loop"
    /\ UNCHANGED <<glyphs, font_meta_file>>
    /\ UNCHANGED bvars

\* lines 123-150: one glyph
FontGlyph ==
    /\ f_pc = "loop"
    /\ glyph_idx <= Len(glyphs)
    /\ LET st == FontLoopBody([code_point |-> code_point, font_dict |-> font_dict],
                              glyphs[glyph_idx])
       IN /\ code_point' = st.code_point
          /\ font_dict' = st.font_dict
    /\ glyph_idx' = glyph_idx + 1
    /\ UNCHANGED <<glyphs, f_pc, font_meta_file>>
    /\ UNCHANGED bvars

\* lines 152-162: the font is generated and font_dict saved and returned
FontGenerate ==
    /\ f_pc = "loop"
    /\ glyph_idx > Len(glyphs)
    /\ font_meta_file' = File(font_dict)
    /\ f_pc' = "done"
    /\ UNCHANGED <<glyphs, glyph_idx, code_point, font_dict>>
    /\ UNCHANGED bvars

AssembleInit ==
    /\ glyphs \in AssembleLists
    /\ f_pc = "begin"
    /\ glyph_idx = 1
    /\ code_point = FirstCodePoint
    /\ font_dict = EmptyDict
    /\ font_meta_file = NoFile


(***************************************************************************)
(* md5counter.py : StringMD5Counter                                        *)
(***************************************************************************)
\* get_count(string), lines 33-47: self.md5_count.get(md5_hash, 0)
get_count(count, string) ==
    LET md5_hash == Hash(string) IN
    IF md5_hash \in DOMAIN count THEN count[md5_hash] ELSE 0

\* The strings the single calls are made with
CounterStrings == {PathSmall, PathSmallPadded, PathCell}

\* The pages of the scans: three pages of up to MaxPageLen shapes, at most
\* one shape without a d attribute and at most one unpadded 50x50 shape
ScanNames == {<<1>>, <<1, 0>>, <<2>>}
ScanShapes == {PathSmall, PathSmallPadded, PathCell, None}
ScanCorpora ==
    {c \in [ScanNames -> SeqsUpTo(ScanShapes, MaxPageLen)] :
        TimesIn(c, None) <= 1 /\ TimesIn(c, PathSmall) <= 1}

\* the arguments of the add_string calls count_glyphs_and_save_svg makes for
\* a page (make_font.py lines 75-79), from path k on
RECURSIVE AddedBy(_, _)
AddedBy(page, k) ==
    IF k > Len(page) THEN <<>>
    ELSE (IF page[k] # None THEN <<RStrip(page[k])>> ELSE <<>>)
            \o AddedBy(page, k + 1)

CounterIdle ==
    /\ c_mode = "idle"
    /\ c_pages = EmptyDict
    /\ c_count = EmptyDict
    /\ c_log = <<>>
    /\ c_merged = <<>>

\* __init__, line 11: self.md5_count = {}
CounterInit ==
    /\ c_count = EmptyDict
    /\ c_log = <<>>
    /\ c_merged = <<>>
    /\ \/ c_mode = "calls" /\ c_pages = EmptyDict
       \/ c_mode = "scan" /\ c_pages \in ScanCorpora

\* one call of add_string (lines 13-27)
CounterAddString ==
    /\ c_mode = "calls"
    /\ Len(c_log) < MaxAdds
    /\ \E string \in CounterStrings :
          /\ c_count' = add_string(c_count, string)
          /\ c_log' = Append(c_log, string)
    /\ UNCHANGED <<c_mode, c_pages, c_merged>>

\* count_glyphs_and_save_svg (make_font.py lines 75-79) for one page that
\* has not been counted yet
CounterScanPage ==
    /\ c_mode = "scan"
    /\ \E file_name \in DOMAIN c_pages \ Range(c_merged) :
          /\ c_count' = CountLoop(c_count, c_pages[file_name], 1)
          /\ c_log' = c_log \o AddedBy(c_pages[file_name], 1)
          /\ c_merged' = Append(c_merged, file_name)
    /\ UNCHANGED <<c_mode, c_pages>>


(***************************************************************************)
(* png2svg.py : round_svg_numbers                                          *)
(*   pattern  ([MC ])([-+]?\d*\.\d+)                                       *)
(***************************************************************************)
Digits == <<"0", "1", "2", "3", "4", "5", "6", "7", "8", "9">>
IsDigit(c) == \E v \in 1..10 : Digits[v] = c
DigitValue(c) == (CHOOSE v \in 1..10 : Digits[v] = c) - 1
PrefixChars == {"M", "C", " "}
SignChars == {"-", "+"}

\* \d* from position i: the first position from i on that holds no digit
RECURSIVE DigitsEnd(_, _)
DigitsEnd(s, i) ==
    IF i <= Len(s) /\ IsDigit(s[i]) THEN DigitsEnd(s, i + 1) ELSE i

\* int(...) of the digits s[a..b-1], 0 for none
RECURSIVE DigitsValue(_, _, _)
DigitsValue(s, a, b) ==
    IF a >= b THEN 0
    ELSE 10 * DigitsValue(s, a, b - 1) + DigitValue(s[b - 1])

\* the decimal digits of n >= 0
RECURSIVE IntDigits(_)
IntDigits(n) ==
    IF n < 10 THEN <<Digits[n + 1]>>
    ELSE IntDigits(n \div 10) \o <<Digits[(n % 10) + 1]>>

\* The match of the pattern that begins at position i, if there is one:
\* [sign, int, frac, end] with int..frac-2 the integer digits, frac..end-1
\* the fraction digits; <<>> if the pattern does not match at i.  \d* and
\* \d+ are greedy and no shorter choice of them can match.
MatchAt(s, i) ==
    IF i > Len(s) \/ s[i] \notin PrefixChars THEN <<>>
    ELSE LET signed == i + 1 <= Len(s) /\ s[i + 1] \in SignChars
             int == IF signed THEN i + 2 ELSE i + 1
             dot == DigitsEnd(s, int)
         IN IF dot + 1 <= Len(s) /\ s[dot] = "." /\ IsDigit(s[dot + 1])
            THEN [negative |-> signed /\ s[i + 1] = "-", int |-> int,
                  frac |-> dot + 1, end |-> DigitsEnd(s, dot + 1)]
            ELSE <<>>

\* round(float(group 2), 2) in hundredths, for a match m of s.  The third
\* fraction digit decides; the inputs of the model have no digit 5, so no
\* value lies half way between two hundredths.
RoundedHundredths(s, m) ==
    LET whole == DigitsValue(s, m.int, m.frac - 1)
        tenths == DigitValue(s[m.frac])
        hundredths == IF m.frac + 1 < m.end THEN DigitValue(s[m.frac + 1]) ELSE 0
        up == IF m.frac + 2 < m.end /\ DigitValue(s[m.frac + 2]) >= 5 THEN 1 ELSE 0
    IN 100 * whole + 10 * tenths + hundredths + up

\* "{:.2f}".format(rounded_number).rstrip('0').rstrip('.')  (line 86); the
\* sign of a negative number stays, also when it rounds to -0.0
FormatRounded(negative, h) ==
    LET sign == IF negative THEN <<"-">> ELSE <<>>
        whole == IntDigits(h \div 100)
        d1 == (h \div 10) % 10
        d2 == h % 10
    IN sign \o whole \o
       (IF d2 # 0 THEN <<".", Digits[d1 + 1], Digits[d2 + 1]>>
        ELSE IF d1 # 0 THEN <<".", Digits[d1 + 1]>>
        ELSE <<>>)

\* re.sub(pattern, round_match, svg_str) from position i on (line 87)
RECURSIVE RoundFrom(_, _)
RoundFrom(s, i) ==
    IF i > Len(s) THEN <<>>
    ELSE LET m == MatchAt(s, i) IN
         IF m = <<>> THEN <<s[i]>> \o RoundFrom(s, i + 1)
         ELSE <<s[i]>> \o FormatRounded(m.negative, RoundedHundredths(s, m))
                 \o RoundFrom(s, m.end)

round_svg_numbers_keep(svg_str) == svg_str
round_svg_numbers(svg_str) == RoundFrom(svg_str, 1)

\* str.rstrip() of a string of characters
RECURSIVE RStripChars(_)
RStripChars(s) ==
    IF Len(s) > 0 /\ s[Len(s)] = " " THEN RStripChars(SubSeq(s, 1, Len(s) - 1))
    ELSE s

\* The digest the counting site gives a shape of the rounded svg
\* (make_font.py lines 76-79, md5counter.py line 21)
ShapeDigestUnstripped(d) == Hash(d)
ShapeDigest(d) == Hash(RStripChars(d))

\* Inputs: every string of up to MaxRawLen characters, paired with itself,
\* and every string of up to MaxRawLen - 1 characters paired with variants
\* of it (a blank, a zero or a nine more at the end, the last character
\* less)
RawChars == {"M", " ", ".", "0", "9"}
RawStrings == SeqsUpTo(RawChars, MaxRawLen)
Variants(a) ==
    {a \o <<" ">>, a \o <<"0">>, a \o <<"9">>,
     IF Len(a) > 0 THEN SubSeq(a, 1, Len(a) - 1) ELSE a}
RawPairs ==
    {<<a, a>> : a \in RawStrings}
       \cup UNION {{<<a, b>> : b \in Variants(a)} :
                      a \in SeqsUpTo(RawChars, MaxRawLen - 1)}

CanonIdle ==
    /\ k_raw = <<>>
    /\ k_pc = "idle"
    /\ k_once = <<>>
    /\ k_digest = <<>>
    /\ k_twice = <<>>

CanonInit ==
    /\ k_raw \in RawPairs
    /\ k_pc = "raw"
    /\ k_once = <<>>
    /\ k_digest = <<>>
    /\ k_twice = <<>>

\* count_glyphs_and_save_svg, make_font.py lines 73-79, on each of the two
CanonRound ==
    /\ k_pc = "raw"
    /\ k_once' = <<round_svg_numbers(k_raw[1]), round_svg_numbers(k_raw[2])>>
    /\ k_digest' = <<ShapeDigest(round_svg_numbers(k_raw[1])),
                     ShapeDigest(round_svg_numbers(k_raw[2]))>>
    /\ k_pc' = "once"
    /\ UNCHANGED <<k_raw, k_twice>>

\* round_svg_numbers applied to its own result
CanonAgain ==
    /\ k_pc = "once"
    /\ k_twice' = <<round_svg_numbers(k_once[1]), round_svg_numbers(k_once[2])>>
    /\ k_pc' = "twice"
    /\ UNCHANGED <<k_raw, k_once, k_digest>>

\* Inputs for single operands: a command letter or separator, then a number
\* with one integer digit, two decimals and up to MaxTail further digits.
\* The further digits are below 5, so rounding to two places and cutting
\* after two places give the same number.  A pair holds two such operands
\* that differ in the further digits only.
OperandPrefixes == {"M", "C", " ", "L", ","}
OperandDecimals == {"0", "2"}
OperandTails == SeqsUpTo({"0", "1", "4"}, MaxTail)
Operand(p, t, h, tail) == <<p, "1", ".", t, h>> \o tail
OperandPairs ==
    {<<Operand(p, t, h, a), Operand(p, t, h, b)>> :
        p \in OperandPrefixes, t \in OperandDecimals, h \in OperandDecimals,
        a \in OperandTails, b \in OperandTails}

OperandInit ==
    /\ k_raw \in OperandPairs
    /\ k_pc = "raw"
    /\ k_once = <<>>
    /\ k_digest = <<>>
    /\ k_twice = <<>>


(***************************************************************************)
(* screenshot2.py : main                                                   *)
(***************************************************************************)
PageKinds == {"ok", "bad_png", "no_d", "no_drawing"}
NoPagesize == 0
ScreenHeight == 800
PostPositions ==
    {"post_font", "post_canvas", "post_register", "post_list", "post_dedup",
     "post_render", "post_save"}

\* the ascending sequence of a set of screenshot numbers (the names carry
\* the time stamp, so sorted() gives the order of capture)
RECURSIVE SortedNumbers(_)
SortedNumbers(S) ==
    IF S = {} THEN <<>>
    ELSE LET n == CHOOSE x \in S : \A y \in S : x <= y
         IN <<n>> \o SortedNumbers(S \ {n})

MainIdle ==
    /\ m_pc = "idle"
    /\ m_adb = FALSE
    /\ m_remove_svg = FALSE
    /\ m_pagesize = NoPagesize
    /\ m_pngs = <<>>
    /\ m_counted = {}
    /\ m_svg_dir_exists = FALSE
    /\ m_svg_dir = EmptyDict
    /\ m_font_file = FALSE
    /\ m_font_path = FALSE
    /\ m_svg_files = <<>>
    /\ m_idx = 1
    /\ m_tried = [dedup |-> {}, render |-> {}]
    /\ m_pdf_pages = <<>>
    /\ m_pdf_saved = FALSE
    /\ m_reports = 0
    /\ m_cancelled = FALSE
    /\ m_abort = "none"

\* lines 159-171: the arguments are parsed, the directories made, the
\* counter created
MainInit ==
    /\ m_pc = "capture"
    /\ m_adb \in BOOLEAN
    /\ m_remove_svg \in BOOLEAN
    /\ m_pagesize = NoPagesize
    /\ m_pngs = <<>>
    /\ m_counted = {}
    /\ m_svg_dir_exists = TRUE
    /\ m_svg_dir = EmptyDict
    /\ m_font_file = FALSE
    /\ m_font_path = FALSE
    /\ m_svg_files = <<>>
    /\ m_idx = 1
    /\ m_tried = [dedup |-> {}, render |-> {}]
    /\ m_pdf_pages = <<>>
    /\ m_pdf_saved = FALSE
    /\ m_reports = 0
    /\ m_cancelled = FALSE
    /\ m_abort = "none"

\* the device is unplugged, or adb is gone
AdbLost ==
    /\ m_pc = "capture"
    /\ m_adb
    /\ m_adb' = FALSE
    /\ UNCHANGED <<m_pc, m_remove_svg, m_pagesize, m_pngs, m_counted,
                   m_svg_dir_exists, m_svg_dir, m_font_file, m_font_path,
                   m_svg_files, m_idx, m_tried, m_pdf_pages, m_pdf_saved,
                   m_reports, m_cancelled, m_abort>>

\* lines 173-187, one turn of the capture loop with adb working:
\* crop_and_gather_svg_stats (lines 98-108) catches the failure of a page;
\* count_glyphs_and_save_svg (make_font.py lines 61-84) writes the svg
CaptureScreenshot ==
    /\ m_pc = "capture"
    /\ m_adb
    /\ Len(m_pngs) < MaxPages
    /\ \E kind \in PageKinds :
          LET n == Len(m_pngs) + 1 IN
          /\ m_pngs' = Append(m_pngs, kind)
          /\ IF kind = "bad_png"
             THEN \* detect_pagesize of the first page raises as well
                  IF m_pagesize = NoPagesize
                  THEN /\ m_pc' = "finally"
                       /\ m_abort' = "capture_error"
                       /\ UNCHANGED <<m_pagesize, m_counted, m_svg_dir>>
                  ELSE UNCHANGED <<m_pc, m_abort, m_pagesize, m_counted, m_svg_dir>>
             ELSE /\ m_pagesize' =
                        IF m_pagesize = NoPagesize THEN ScreenHeight ELSE m_pagesize
                  /\ m_counted' = m_counted \cup {n}
                  /\ m_svg_dir' =
                        DictPut(m_svg_dir, n, [svg |-> "traced", json |-> FALSE])
                  /\ UNCHANGED <<m_pc, m_abort>>
    /\ UNCHANGED <<m_adb, m_remove_svg, m_svg_dir_exists, m_font_file,
                   m_font_path, m_svg_files, m_idx, m_tried, m_pdf_pages,
                   m_pdf_saved, m_reports, m_cancelled>>

\* lines 173-187, one turn with adb not working: take_screenshot returns
\* None after adb_wrapper (lines 28-41) printed the failure; with no
\* pagesize yet detect_pagesize(None) raises and main is left through the
\* finally clause; otherwise crop_and_gather_svg_stats catches the failure,
\* press_volume_down prints the next failure and the loop goes on.
CaptureWithoutAdb ==
    /\ m_pc = "capture"
    /\ ~m_adb
    /\ m_reports < MaxReports
    /\ IF m_pagesize = NoPagesize
       THEN /\ m_reports' = m_reports + 1
            /\ m_pc' = "finally"
            /\ m_abort' = "capture_error"
       ELSE /\ m_reports' = m_reports + 2
            /\ UNCHANGED <<m_pc, m_abort>>
    /\ UNCHANGED <<m_adb, m_remove_svg, m_pagesize, m_pngs, m_counted,
                   m_svg_dir_exists, m_svg_dir, m_font_file, m_font_path,
                   m_svg_files, m_idx, m_tried, m_pdf_pages, m_pdf_saved,
                   m_cancelled>>

\* lines 188-189: KeyboardInterrupt in the capture loop
CaptureInterrupt ==
    /\ m_pc = "capture"
    /\ m_cancelled' = TRUE
    /\ m_pc' = "post_font"
    /\ UNCHANGED <<m_adb, m_remove_svg, m_pagesize, m_pngs, m_counted,
                   m_svg_dir_exists, m_svg_dir, m_font_file, m_font_path,
                   m_svg_files, m_idx, m_tried, m_pdf_pages, m_pdf_saved,
                   m_reports, m_abort>>

\* lines 190-193: find_glyphs_and_create_font writes <directory>.ttf, or
\* raises before it did
PostFont ==
    /\ m_pc = "post_font"
    /\ \/ /\ m_font_file' = TRUE
          /\ m_pc' = "post_canvas"
          /\ UNCHANGED m_abort
       \/ /\ m_pc' = "finally"
          /\ m_abort' = "font_error"
          /\ UNCHANGED m_font_file
    /\ UNCHANGED <<m_adb, m_remove_svg, m_pagesize, m_pngs, m_counted,
                   m_svg_dir_exists, m_svg_dir, m_font_path, m_svg_files,
                   m_idx, m_tried, m_pdf_pages, m_pdf_saved, m_reports,
                   m_cancelled>>

\* lines 195-196
PostCanvas ==
    /\ m_pc = "post_canvas"
    /\ m_pc' = "post_register"
    /\ UNCHANGED <<m_adb, m_remove_svg, m_pagesize, m_pngs, m_counted,
                   m_svg_dir_exists, m_svg_dir, m_font_file, m_font_path,
                   m_svg_files, m_idx, m_tried, m_pdf_pages, m_pdf_saved,
                   m_reports, m_cancelled, m_abort>>

\* lines 197-199: font_path is set, then the font is registered, which may
\* raise
PostRegister ==
    /\ m_pc = "post_register"
    /\ m_font_path' = TRUE
    /\ \/ m_pc' = "post_list" /\ UNCHANGED m_abort
       \/ m_pc' = "finally" /\ m_abort' = "font_error"
    /\ UNCHANGED <<m_adb, m_remove_svg, m_pagesize, m_pngs, m_counted,
                   m_svg_dir_exists, m_svg_dir, m_font_file, m_svg_files,
                   m_idx, m_tried, m_pdf_pages, m_pdf_saved, m_reports,
                   m_cancelled>>

\* lines 200-203
PostList ==
    /\ m_pc = "post_list"
    /\ m_svg_files' = SortedNumbers(DOMAIN m_svg_dir)
    /\ m_idx' = 1
    /\ m_pc' = IF DOMAIN m_svg_dir = {} THEN "post_save" ELSE "post_dedup"
    /\ UNCHANGED <<m_adb, m_remove_svg, m_pagesize, m_pngs, m_counted,
                   m_svg_dir_exists, m_svg_dir, m_font_file, m_font_path,
                   m_tried, m_pdf_pages, m_pdf_saved, m_reports,
                   m_cancelled, m_abort>>

\* lines 204-212: deduplicate_svg for the current file; it raises at a path
\* without d (deduplicate2.py line 49), which is caught here and leaves the
\* svg as traced and no json
PostDedup ==
    /\ m_pc = "post_dedup"
    /\ LET n == m_svg_files[m_idx] IN
          /\ m_tried' = [m_tried EXCEPT !.dedup = @ \cup {n}]
          /\ m_svg_dir' =
                IF m_pngs[n] = "no_d" THEN m_svg_dir
                ELSE [m_svg_dir EXCEPT ![n] = [svg |-> "rewritten", json |-> TRUE]]
    /\ m_pc' = "post_render"
    /\ UNCHANGED <<m_adb, m_remove_svg, m_pagesize, m_pngs, m_counted,
                   m_svg_dir_exists, m_font_file, m_font_path, m_svg_files,
                   m_idx, m_pdf_pages, m_pdf_saved, m_reports, m_cancelled,
                   m_abort>>

\* lines 213-216: process_image_to_pdf_page outside any try; it raises when
\* svg2rlg gives no drawing (svg2pdf2.py lines 60-64) and render_text
\* (svg2pdf2.py line 70) raises FileNotFoundError when the json is missing
PostRenderUnguarded ==
    /\ m_pc = "post_render"
    /\ LET n == m_svg_files[m_idx] IN
          /\ m_tried' = [m_tried EXCEPT !.render = @ \cup {n}]
          /\ IF m_pagesize = NoPagesize \/ m_pngs[n] = "no_drawing" \/ ~m_svg_dir[n].json
             THEN /\ m_pc' = "finally"
                  /\ m_abort' = "page_error"
                  /\ UNCHANGED <<m_pdf_pages, m_idx>>
             ELSE /\ m_pdf_pages' = Append(m_pdf_pages, n)
                  /\ m_idx' = m_idx + 1
                  /\ m_pc' = IF m_idx + 1 > Len(m_svg_files)
                             THEN "post_save" ELSE "post_dedup"
                  /\ UNCHANGED m_abort
    /\ UNCHANGED <<m_adb, m_remove_svg, m_pagesize, m_pngs, m_counted,
                   m_svg_dir_exists, m_svg_dir, m_font_file, m_font_path,
                   m_svg_files, m_pdf_saved, m_reports, m_cancelled>>

\* line 217
PostSave ==
    /\ m_pc = "post_save"
    /\ m_pdf_saved' = TRUE
    /\ m_pc' = "finally"
    /\ UNCHANGED <<m_adb, m_remove_svg, m_pagesize, m_pngs, m_counted,
                   m_svg_dir_exists, m_svg_dir, m_font_file, m_font_path,
                   m_svg_files, m_idx, m_tried, m_pdf_pages, m_reports,
                   m_cancelled, m_abort>>

\* a second KeyboardInterrupt, raised while the handler of the first one
\* is at work: it leaves the handler, the finally clause follows
PostInterrupt ==
    /\ m_pc \in PostPositions
    /\ m_pc' = "finally"
    /\ m_abort' = "interrupt"
    /\ UNCHANGED <<m_adb, m_remove_svg, m_pagesize, m_pngs, m_counted,
                   m_svg_dir_exists, m_svg_dir, m_font_file, m_font_path,
                   m_svg_files, m_idx, m_tried, m_pdf_pages, m_pdf_saved,
                   m_reports, m_cancelled>>

\* lines 218-225
MainFinally ==
    /\ m_pc = "finally"
    /\ IF m_remove_svg /\ m_svg_dir_exists
       THEN m_svg_dir_exists' = FALSE /\ m_svg_dir' = EmptyDict
       ELSE UNCHANGED <<m_svg_dir_exists, m_svg_dir>>
    /\ m_font_file' = IF m_font_path /\ m_font_file THEN FALSE ELSE m_font_file
    /\ m_pc' = "exit"
    /\ UNCHANGED <<m_adb, m_remove_svg, m_pagesize, m_pngs, m_counted,
                   m_font_path, m_svg_files, m_idx, m_tried, m_pdf_pages,
                   m_pdf_saved, m_reports, m_cancelled, m_abort>>


(***************************************************************************)
(* make_font.py : make_svg                                                 *)
(***************************************************************************)
\* make_svg (lines 169-181): the svg document written for a shape; its
\* viewBox attribute holds the four numbers xmin, ymin, xmin + 100,
\* ymin + 100 and its one path holds d as it was handed over.
make_svg(d, dbox) ==
    [viewBox |-> <<dbox[1], dbox[2], dbox[1] + 100, dbox[2] + 100>>, d |-> d]

\* An svg viewBox is read as min-x, min-y, width, height: the corner of the
\* cell and its extent, as the importer of the font compiler sees them.
CellOrigin(svg) == <<svg.viewBox[1], svg.viewBox[2]>>
CellExtent(svg) == <<svg.viewBox[3], svg.viewBox[4]>>

\* the vertices of the outline relative to the corner of the cell
LocalOutline(svg) ==
    [k \in 1..Len(svg.d.pts) |->
        <<svg.d.pts[k][1] - CellOrigin(svg)[1],
          svg.d.pts[k][2] - CellOrigin(svg)[2]>>]

\* the same shape with every coordinate moved by (dx, dy)
Translated(d, dx, dy) ==
    [d EXCEPT !.pts = [k \in 1..Len(d.pts) |->
                          <<d.pts[k][1] + dx, d.pts[k][2] + dy>>]]

\* Inputs of the outline model: two representatives, the second being the
\* first moved by some offset; the shapes are the samples and the offsets
\* are multiples of ShiftStep.
ShiftStep == 10
Shifts == {ShiftStep * i : i \in 0..MaxShift}
OutlineShapes == {PathSmall, PathCell, PathWide, PathEmpty}
OutlinePairs ==
    {<<Translated(d, ax, ay), Translated(d, ax + dx, ay + dy)>> :
        d \in OutlineShapes, ax \in Shifts, ay \in Shifts,
        dx \in Shifts, dy \in Shifts}

OutlineIdle ==
    /\ o_glyphs = <<>>
    /\ o_pc = "idle"
    /\ o_idx = 1
    /\ o_imported = EmptyDict

\* lines 114-121
OutlineInit ==
    /\ o_glyphs \in OutlinePairs
    /\ o_pc = "loop"
    /\ o_idx = 1
    /\ o_imported = EmptyDict

\* lines 123-136: one representative; without a bounding box or too large
\* it is passed over, else make_svg writes its svg and importOutlines reads
\* it
OutlineGlyph ==
    /\ o_pc = "loop"
    /\ o_idx <= Len(o_glyphs)
    /\ LET d == o_glyphs[o_idx]
           dbox == BBox(d)
       IN o_imported' =
             IF dbox = NoBBox THEN o_imported
             ELSE IF ~is_within_range(dbox[1], dbox[2], dbox[3], dbox[4])
                  THEN o_imported
                  ELSE DictPut(o_imported, o_idx, make_svg(d, dbox))
    /\ o_idx' = o_idx + 1
    /\ UNCHANGED <<o_glyphs, o_pc>>

\* lines 152-162: the loop is over, the font is generated
OutlineGenerate ==
    /\ o_pc = "loop"
    /\ o_idx > Len(o_glyphs)
    /\ o_pc' = "done"
    /\ UNCHANGED <<o_glyphs, o_idx, o_imported>>


(***************************************************************************)
(* screenshot2.py : main, the page size (lines 162, 174-178, 196, 213-214) *)
(***************************************************************************)
Unreadable == <<>>
NonePagesize == <<>>
ImageSizes == {<<600, 800>>, <<800, 600>>, <<600, 1000>>}
CropTops == {0, 50}
CropBottoms == {0, 30}

\* line 175: if pagesize is None
PagesizeUnsetAlways(pagesize) == TRUE
PagesizeUnset(pagesize) == pagesize = NonePagesize

\* png2svg.detect_pagesize (lines 17-22) and line 177
CroppedPagesize(size, crop_top, crop_bottom) ==
    <<size[1], size[2] - crop_top - crop_bottom>>

SizeIdle ==
    /\ z_crop_top = 0
    /\ z_crop_bottom = 0
    /\ z_pc = "idle"
    /\ z_pngs = <<>>
    /\ z_pagesize = NonePagesize
    /\ z_canvas = <<>>
    /\ z_svg_files = <<>>
    /\ z_idx = 1
    /\ z_heights = <<>>

\* lines 159-171
SizeInit ==
    /\ z_crop_top \in CropTops
    /\ z_crop_bottom \in CropBottoms
    /\ z_pc = "capture"
    /\ z_pngs = <<>>
    /\ z_pagesize = NonePagesize
    /\ z_canvas = <<>>
    /\ z_svg_files = <<>>
    /\ z_idx = 1
    /\ z_heights = <<>>

\* lines 173-187, one turn of the capture loop: detect_pagesize raises for
\* an image that cannot be opened and main is left; with the page size set
\* the failure of such an image is caught in crop_and_gather_svg_stats
SizeCapture ==
    /\ z_pc = "capture"
    /\ Len(z_pngs) < MaxPages
    /\ \E size \in ImageSizes \cup {Unreadable} :
          /\ z_pngs' = Append(z_pngs, size)
          /\ IF PagesizeUnset(z_pagesize)
             THEN IF size = Unreadable
                  THEN z_pc' = "exit" /\ UNCHANGED z_pagesize
                  ELSE /\ z_pagesize' =
                             CroppedPagesize(size, z_crop_top, z_crop_bottom)
                       /\ UNCHANGED z_pc
             ELSE UNCHANGED <<z_pc, z_pagesize>>
    /\ UNCHANGED <<z_crop_top, z_crop_bottom, z_canvas, z_svg_files, z_idx,
                   z_heights>>

\* lines 188-202: KeyboardInterrupt, the font, the canvas, the listing
SizeInterrupt ==
    /\ z_pc = "capture"
    /\ z_canvas' = <<z_pagesize>>
    /\ z_svg_files' =
          SortedNumbers({n \in 1..Len(z_pngs) : z_pngs[n] # Unreadable})
    /\ z_idx' = 1
    /\ z_pc' = "pages"
    /\ UNCHANGED <<z_crop_top, z_crop_bottom, z_pngs, z_pagesize, z_heights>>

\* lines 203-216 for one file: pagesize[1] is handed on as the height
SizePage ==
    /\ z_pc = "pages"
    /\ z_idx <= Len(z_svg_files)
    /\ IF z_pagesize # NonePagesize
       THEN /\ z_heights' = Append(z_heights, z_pagesize[2])
            /\ z_idx' = z_idx + 1
            /\ UNCHANGED z_pc
       ELSE /\ z_pc' = "exit"
            /\ UNCHANGED <<z_heights, z_idx>>
    /\ UNCHANGED <<z_crop_top, z_crop_bottom, z_pngs, z_pagesize, z_canvas,
                   z_svg_files>>

\* line 217
SizeSave ==
    /\ z_pc = "pages"
    /\ z_idx > Len(z_svg_files)
    /\ z_pc' = "exit"
    /\ UNCHANGED <<z_crop_top, z_crop_bottom, z_pngs, z_pagesize, z_canvas,
                   z_svg_files, z_idx, z_heights>>


(***************************************************************************)
(* count_glyphs_and_save_svg of make_font.py (lines 61-84) and of count.py *)
(* (lines 57-77), inside the loop of crop_and_do_shape_stats               *)
(***************************************************************************)
\* count.py lines 70-72: the loop over the path elements without a test of
\* d; st = [count, raised], and None.rstrip() raises
RECURSIVE CountLoopUnguarded(_, _, _)
CountLoopUnguarded(st, page, k) ==
    IF k > Len(page) THEN st
    ELSE IF page[k] = None THEN [st EXCEPT !.raised = TRUE]
    ELSE CountLoopUnguarded(
             [st EXCEPT !.count = add_string(st.count, RStrip(page[k]))],
             page, k + 1)

\* the loop of the module at work, from the counter count
CountLoopOf(module, count, page) ==
    IF module = "count"
    THEN CountLoopUnguarded([count |-> count, raised |-> FALSE], page, 1)
    ELSE [count |-> CountLoop(count, page, 1), raised |-> FALSE]

\* Inputs of the scan model: two screenshots, each readable or not, each
\* traced into up to MaxPageLen path elements
ScanModules == {"make_font", "count"}
AtomShapes == {PathSmall, PathCell, None}
AtomPages ==
    {[readable |-> r, paths |-> p] :
        r \in BOOLEAN, p \in SeqsUpTo(AtomShapes, MaxPageLen)}
AtomCorpora == [1..2 -> AtomPages]

ScanIdle ==
    /\ a_module = "idle"
    /\ a_pages = <<>>
    /\ a_pc = "idle"
    /\ a_idx = 1
    /\ a_count = EmptyDict
    /\ a_saved = {}
    /\ a_errors = {}

\* make_font.py lines 26-36: the listing, the page size, the new counter
ScanInit ==
    /\ a_module \in ScanModules
    /\ a_pages \in AtomCorpora
    /\ a_pc = "loop"
    /\ a_idx = 1
    /\ a_count = EmptyDict
    /\ a_saved = {}
    /\ a_errors = {}

\* make_font.py lines 37-46 for one screenshot, with the whole of
\* count_glyphs_and_save_svg: Image.open may fail before anything is
\* counted; the loop counts into the shared counter; the svg file is
\* written after the loop and the writing may fail (svg_written = FALSE);
\* every exception is caught and printed at lines 45-46
ScanPage ==
    /\ a_pc = "loop"
    /\ a_idx <= Len(a_pages)
    /\ \E svg_written \in BOOLEAN :
          LET page == a_pages[a_idx]
              st == CountLoopOf(a_module, a_count, page.paths)
          IN IF ~page.readable
             THEN /\ a_errors' = a_errors \cup {a_idx}
                  /\ UNCHANGED <<a_count, a_saved>>
             ELSE /\ a_count' = st.count
                  /\ IF st.raised \/ ~svg_written
                     THEN /\ a_errors' = a_errors \cup {a_idx}
                          /\ UNCHANGED a_saved
                     ELSE /\ a_saved' = a_saved \cup {a_idx}
                          /\ UNCHANGED a_errors
    /\ a_idx' = a_idx + 1
    /\ UNCHANGED <<a_module, a_pages, a_pc>>

\* make_font.py lines 47-48: the counter is dumped and handed on
ScanEnd ==
    /\ a_pc = "loop"
    /\ a_idx > Len(a_pages)
    /\ a_pc' = "done"
    /\ UNCHANGED <<a_module, a_pages, a_idx, a_count, a_saved, a_errors>>


(***************************************************************************)
(* svg2pdf2.py : convert_to_pdf, process_image_to_pdf_page                 *)
(***************************************************************************)
\* what a call leaves on the canvas: the residual graphic of input page n
\* (renderPDF.draw) and its text run (drawText at the end of render_text)
Graphic(n) == [what |-> "graphic", page |-> n]
TextRun(n) == [what |-> "text", page |-> n]

\* pdf_canvas.showPage(): the operators drawn so far become a page
ShowPage(out, code) == Append(out, code)

\* Inputs of the document model
DocPageKinds == [drawing : BOOLEAN, json : BOOLEAN]
DocCorpora == UNION {[1..n -> DocPageKinds] : n \in 0..MaxDocPages}

ConvertIdle ==
    /\ p_pages = <<>>
    /\ p_pc = "idle"
    /\ p_idx = 1
    /\ p_code = <<>>
    /\ p_out = <<>>
    /\ p_errors = {}
    /\ p_saved = FALSE

ConvertInit ==
    /\ p_pages \in DocCorpora
    /\ p_pc = "start"
    /\ p_idx = 1
    /\ p_code = <<>>
    /\ p_out = <<>>
    /\ p_errors = {}
    /\ p_saved = FALSE

\* lines 15-30: the listing, the page size of the first file (detect_pagesize
\* raises when it has no drawing), the font, the canvas
ConvertStart ==
    /\ p_pc = "start"
    /\ p_pc' = IF Len(p_pages) = 0 THEN "exit"
               ELSE IF ~p_pages[1].drawing THEN "exit"
               ELSE "loop"
    /\ UNCHANGED <<p_pages, p_idx, p_code, p_out, p_errors, p_saved>>

\* lines 31-40 for one file, with process_image_to_pdf_page (lines 58-66):
\* without a drawing it raises before anything is drawn; with one the
\* drawing is drawn, then render_text loads the json and raises if it
\* cannot; drawText and showPage follow only if it did not
ConvertPage ==
    /\ p_pc = "loop"
    /\ p_idx <= Len(p_pages)
    /\ LET page == p_pages[p_idx] IN
          IF ~page.drawing
          THEN /\ p_errors' = p_errors \cup {p_idx}
               /\ UNCHANGED <<p_code, p_out>>
          ELSE IF ~page.json
          THEN /\ p_code' = Append(p_code, Graphic(p_idx))
               /\ p_errors' = p_errors \cup {p_idx}
               /\ UNCHANGED p_out
          ELSE /\ p_out' = ShowPage(p_out,
                               p_code \o <<Graphic(p_idx), TextRun(p_idx)>>)
               /\ p_code' = <<>>
               /\ UNCHANGED p_errors
    /\ p_idx' = p_idx + 1
    /\ UNCHANGED <<p_pages, p_pc, p_saved>>

\* line 43: pdf_canvas.save() closes a page that has something drawn on it
ConvertSave ==
    /\ p_pc = "loop"
    /\ p_idx > Len(p_pages)
    /\ p_out' = IF Len(p_code) > 0 THEN ShowPage(p_out, p_code) ELSE p_out
    /\ p_code' = <<>>
    /\ p_saved' = TRUE
    /\ p_pc' = "exit"
    /\ UNCHANGED <<p_pages, p_idx, p_errors>>

(***************************************************************************)
(* Specifications                                                          *)
(***************************************************************************)
RenderStep ==
    \/ RenderBegin /\ UNCHANGED <<dvars, bvars, fvars, cvars, kvars, mvars, ovars, zvars, avars, pvars>>
    \/ RenderFirst /\ UNCHANGED <<dvars, bvars, fvars, cvars, kvars, mvars, ovars, zvars, avars, pvars>>
    \/ RenderEntry /\ UNCHANGED <<dvars, bvars, fvars, cvars, kvars, mvars, ovars, zvars, avars, pvars>>
    \/ RenderEnd /\ UNCHANGED <<dvars, bvars, fvars, cvars, kvars, mvars, ovars, zvars, avars, pvars>>

InitRender == RenderInit /\ DedupIdle /\ BuildIdle /\ FontIdle /\ CounterIdle /\ CanonIdle /\ MainIdle
       /\ OutlineIdle
       /\ SizeIdle
       /\ ScanIdle
       /\ ConvertIdle

SpecRender == InitRender /\ [][RenderStep]_vars

DedupStep ==
    \/ DedupBegin /\ UNCHANGED <<rvars, bvars, fvars, cvars, kvars, mvars, ovars, zvars, avars, pvars>>
    \/ DedupPath /\ UNCHANGED <<rvars, bvars, fvars, cvars, kvars, mvars, ovars, zvars, avars, pvars>>
    \/ DedupWrite /\ UNCHANGED <<rvars, bvars, fvars, cvars, kvars, mvars, ovars, zvars, avars, pvars>>

InitDedup == DedupInit /\ RenderIdle /\ BuildIdle /\ FontIdle /\ CounterIdle /\ CanonIdle /\ MainIdle
       /\ OutlineIdle
       /\ SizeIdle
       /\ ScanIdle
       /\ ConvertIdle

SpecDedup == InitDedup /\ [][DedupStep]_vars

BuildStep ==
    \/ BuildStart /\ UNCHANGED <<rvars, dvars, cvars, kvars, mvars, ovars, zvars, avars, pvars>>
    \/ BuildCountPage /\ UNCHANGED <<rvars, dvars, cvars, kvars, mvars, ovars, zvars, avars, pvars>>
    \/ BuildSelect /\ UNCHANGED <<rvars, dvars, cvars, kvars, mvars, ovars, zvars, avars, pvars>>
    \/ BuildFind /\ UNCHANGED <<rvars, dvars, cvars, kvars, mvars, ovars, zvars, avars, pvars>>
    \/ FontBegin /\ UNCHANGED <<rvars, dvars, cvars, kvars, mvars, ovars, zvars, avars, pvars>>
    \/ FontGlyph /\ UNCHANGED <<rvars, dvars, cvars, kvars, mvars, ovars, zvars, avars, pvars>>
    \/ FontGenerate /\ UNCHANGED <<rvars, dvars, cvars, kvars, mvars, ovars, zvars, avars, pvars>>

InitBuild == BuildInit /\ FontIdle /\ RenderIdle /\ DedupIdle /\ CounterIdle /\ CanonIdle /\ MainIdle
       /\ OutlineIdle
       /\ SizeIdle
       /\ ScanIdle
       /\ ConvertIdle

SpecBuild == InitBuild /\ [][BuildStep]_vars

AssembleStep ==
    \/ FontBegin /\ UNCHANGED <<rvars, dvars, cvars, kvars, mvars, ovars, zvars, avars, pvars>>
    \/ FontGlyph /\ UNCHANGED <<rvars, dvars, cvars, kvars, mvars, ovars, zvars, avars, pvars>>
    \/ FontGenerate /\ UNCHANGED <<rvars, dvars, cvars, kvars, mvars, ovars, zvars, avars, pvars>>

InitAssemble == AssembleInit /\ BuildIdle /\ RenderIdle /\ DedupIdle /\ CounterIdle /\ CanonIdle /\ MainIdle
       /\ OutlineIdle
       /\ SizeIdle
       /\ ScanIdle
       /\ ConvertIdle

SpecAssemble == InitAssemble /\ [][AssembleStep]_vars


CounterStep ==
    \/ CounterAddString /\ UNCHANGED <<rvars, dvars, bvars, fvars, kvars, mvars, ovars, zvars, avars, pvars>>
    \/ CounterScanPage /\ UNCHANGED <<rvars, dvars, bvars, fvars, kvars, mvars, ovars, zvars, avars, pvars>>

InitCounter ==
    CounterInit /\ RenderIdle /\ DedupIdle /\ BuildIdle /\ FontIdle /\ CanonIdle
       /\ MainIdle
       /\ OutlineIdle
       /\ SizeIdle
       /\ ScanIdle
       /\ ConvertIdle

SpecCounter == InitCounter /\ [][CounterStep]_vars


CanonStep ==
    \/ CanonRound /\ UNCHANGED <<rvars, dvars, bvars, fvars, cvars, mvars, ovars, zvars, avars, pvars>>
    \/ CanonAgain /\ UNCHANGED <<rvars, dvars, bvars, fvars, cvars, mvars, ovars, zvars, avars, pvars>>

InitCanon ==
    CanonInit /\ RenderIdle /\ DedupIdle /\ BuildIdle /\ FontIdle /\ CounterIdle
       /\ MainIdle
       /\ OutlineIdle
       /\ SizeIdle
       /\ ScanIdle
       /\ ConvertIdle

SpecCanon == InitCanon /\ [][CanonStep]_vars

MainStep ==
    \/ AdbLost /\ UNCHANGED <<rvars, dvars, bvars, fvars, cvars, kvars, ovars, zvars, avars, pvars>>
    \/ CaptureScreenshot /\ UNCHANGED <<rvars, dvars, bvars, fvars, cvars, kvars, ovars, zvars, avars, pvars>>
    \/ CaptureWithoutAdb /\ UNCHANGED <<rvars, dvars, bvars, fvars, cvars, kvars, ovars, zvars, avars, pvars>>
    \/ CaptureInterrupt /\ UNCHANGED <<rvars, dvars, bvars, fvars, cvars, kvars, ovars, zvars, avars, pvars>>
    \/ PostFont /\ UNCHANGED <<rvars, dvars, bvars, fvars, cvars, kvars, ovars, zvars, avars, pvars>>
    \/ PostCanvas /\ UNCHANGED <<rvars, dvars, bvars, fvars, cvars, kvars, ovars, zvars, avars, pvars>>
    \/ PostRegister /\ UNCHANGED <<rvars, dvars, bvars, fvars, cvars, kvars, ovars, zvars, avars, pvars>>
    \/ PostList /\ UNCHANGED <<rvars, dvars, bvars, fvars, cvars, kvars, ovars, zvars, avars, pvars>>
    \/ PostDedup /\ UNCHANGED <<rvars, dvars, bvars, fvars, cvars, kvars, ovars, zvars, avars, pvars>>
    \/ PostRenderUnguarded /\ UNCHANGED <<rvars, dvars, bvars, fvars, cvars, kvars, ovars, zvars, avars, pvars>>
    \/ PostSave /\ UNCHANGED <<rvars, dvars, bvars, fvars, cvars, kvars, ovars, zvars, avars, pvars>>
    \/ PostInterrupt /\ UNCHANGED <<rvars, dvars, bvars, fvars, cvars, kvars, ovars, zvars, avars, pvars>>
    \/ MainFinally /\ UNCHANGED <<rvars, dvars, bvars, fvars, cvars, kvars, ovars, zvars, avars, pvars>>

InitMain ==
    MainInit /\ RenderIdle /\ DedupIdle /\ BuildIdle /\ FontIdle /\ CounterIdle
       /\ CanonIdle
       /\ OutlineIdle
       /\ SizeIdle
       /\ ScanIdle
       /\ ConvertIdle

SpecMain == InitMain /\ [][MainStep]_vars

OutlineStep ==
    \/ OutlineGlyph /\ UNCHANGED <<rvars, dvars, bvars, fvars, cvars, kvars, mvars, zvars, avars, pvars>>
    \/ OutlineGenerate /\ UNCHANGED <<rvars, dvars, bvars, fvars, cvars, kvars, mvars, zvars, avars, pvars>>

InitOutline ==
    OutlineInit /\ RenderIdle /\ DedupIdle /\ BuildIdle /\ FontIdle /\ CounterIdle
       /\ CanonIdle /\ MainIdle
       /\ SizeIdle
       /\ ScanIdle
       /\ ConvertIdle

SpecOutline == InitOutline /\ [][OutlineStep]_vars

InitOperand ==
    OperandInit /\ RenderIdle /\ DedupIdle /\ BuildIdle /\ FontIdle /\ CounterIdle
       /\ MainIdle /\ OutlineIdle
       /\ SizeIdle
       /\ ScanIdle
       /\ ConvertIdle

SpecOperand == InitOperand /\ [][CanonStep]_vars

SizeStep ==
    \/ SizeCapture /\ UNCHANGED <<rvars, dvars, bvars, fvars, cvars, kvars, mvars, ovars, avars, pvars>>
    \/ SizeInterrupt /\ UNCHANGED <<rvars, dvars, bvars, fvars, cvars, kvars, mvars, ovars, avars, pvars>>
    \/ SizePage /\ UNCHANGED <<rvars, dvars, bvars, fvars, cvars, kvars, mvars, ovars, avars, pvars>>
    \/ SizeSave /\ UNCHANGED <<rvars, dvars, bvars, fvars, cvars, kvars, mvars, ovars, avars, pvars>>

InitSize ==
    SizeInit /\ RenderIdle /\ DedupIdle /\ BuildIdle /\ FontIdle /\ CounterIdle
       /\ CanonIdle /\ MainIdle /\ OutlineIdle
       /\ ScanIdle
       /\ ConvertIdle

SpecSize == InitSize /\ [][SizeStep]_vars

ScanStep ==
    \/ ScanPage /\ UNCHANGED <<rvars, dvars, bvars, fvars, cvars, kvars, mvars, ovars, zvars, pvars>>
    \/ ScanEnd /\ UNCHANGED <<rvars, dvars, bvars, fvars, cvars, kvars, mvars, ovars, zvars, pvars>>

InitScan ==
    ScanInit /\ RenderIdle /\ DedupIdle /\ BuildIdle /\ FontIdle /\ CounterIdle
       /\ CanonIdle /\ MainIdle /\ OutlineIdle /\ SizeIdle
       /\ ConvertIdle

SpecScan == InitScan /\ [][ScanStep]_vars

ConvertStep ==
    \/ ConvertStart /\ UNCHANGED <<rvars, dvars, bvars, fvars, cvars, kvars, mvars, ovars, zvars, avars>>
    \/ ConvertPage /\ UNCHANGED <<rvars, dvars, bvars, fvars, cvars, kvars, mvars, ovars, zvars, avars>>
    \/ ConvertSave /\ UNCHANGED <<rvars, dvars, bvars, fvars, cvars, kvars, mvars, ovars, zvars, avars>>

InitConvert ==
    ConvertInit /\ RenderIdle /\ DedupIdle /\ BuildIdle /\ FontIdle /\ CounterIdle
       /\ CanonIdle /\ MainIdle /\ OutlineIdle /\ SizeIdle /\ ScanIdle

SpecConvert == InitConvert /\ [][ConvertStep]_vars

Spec == SpecBuild

(***************************************************************************)
(* Properties of the page rewriter (SpecDedup)                             *)
(***************************************************************************)
\* The shape occurrences the loop of deduplicate_svg has gone through
Processed == 1..(path_idx - 1)
OccD(k) == RStrip(in_svg[k].d)
OccT(k) == <<in_svg[k].transform.x, in_svg[k].transform.y>>
OccPromoted(k) == Hash(OccD(k)) \in DOMAIN font_meta
OccEntry(k) == <<font_meta[Hash(OccD(k))].code_point, OccT(k)[1], OccT(k)[2]>>
PromotedOccs == {k \in Processed : OccPromoted(k)}
ResidualOccs == {k \in Processed : ~OccPromoted(k)}

\* the j-th smallest element of a set of numbers
NthOf(S, j) == CHOOSE k \in S : Cardinality({m \in S : m <= k}) = j

\* the written residual graphic: its shared definitions and its placements
OutDefs == svg_out_file.content.defs
OutBody == svg_out_file.content.body
IndicesOf(seq, Test(_)) == {k \in 1..Len(seq) : Test(seq[k])}

\* C2: a shape occurrence is in the page's TextRun, as (codepoint of its
\* digest, offsetX, offsetY), iff its digest is a key of FontMeta; otherwise
\* it is in the residual; no occurrence is in both, every TextRun entry comes
\* from a promoted occurrence, and the rewrite never fails because of a
\* digest absent from FontMeta (it only stops at an element without d).
C2_PromotedIffInFontMeta ==
    /\ \A k \in Processed :
          IF Hash(OccD(k)) \in DOMAIN font_meta
          THEN /\ OccEntry(k) \in Range(font_uses)
               /\ KeyIndex(path_dict, OccD(k)) = 0
          ELSE /\ KeyIndex(path_dict, OccD(k)) # 0
               /\ OccT(k) \in Range(path_dict[KeyIndex(path_dict, OccD(k))].uses)
               /\ \A u \in Range(font_uses) :
                     \A h \in DOMAIN font_meta :
                        font_meta[h].code_point = u[1] => h # Hash(OccD(k))
    /\ \A u \in Range(font_uses) : \E k \in PromotedOccs : u = OccEntry(k)
    /\ d_pc = "raised" => in_svg[path_idx].d = None
    /\ d_pc = "done" =>
          /\ json_out_file.content = font_uses
          /\ \A k \in ResidualOccs :
                \E e \in Range(OutBody) :
                   /\ e.coord = OccT(k)
                   /\ \/ e.tag = "path" /\ e.d = OccD(k)
                      \/ /\ e.tag = "use"
                         /\ \E q \in Range(OutDefs) : q.id = e.href /\ q.d = OccD(k)
          /\ \A e \in Range(OutBody) \cup Range(OutDefs) :
                e.tag = "path" => Hash(e.d) \notin DOMAIN font_meta

\* a written page holding a promoted and a non-promoted occurrence
C2_Witness ==
    /\ d_pc = "done"
    /\ PromotedOccs # {}
    /\ ResidualOccs # {}
    /\ Len(json_out_file.content) > 0
    /\ Len(OutBody) > 0

\* C3: the TextRun lists the promoted occurrences in exactly the order in
\* which they are met in the page's shape list: its j-th entry is the entry
\* of the j-th promoted occurrence.
C3_TextRunDocumentOrder ==
    /\ Len(font_uses) = Cardinality(PromotedOccs)
    /\ \A j \in 1..Len(font_uses) :
          font_uses[j] = OccEntry(NthOf(PromotedOccs, j))
    /\ d_pc = "done" =>
          /\ Len(json_out_file.content) = Cardinality(PromotedOccs)
          /\ \A j \in 1..Len(json_out_file.content) :
                json_out_file.content[j] = OccEntry(NthOf(PromotedOccs, j))

\* a written page whose run holds two different entries around a residual shape
C3_Witness ==
    /\ d_pc = "done"
    /\ Len(in_svg) = 3
    /\ OccPromoted(1) /\ ~OccPromoted(2) /\ OccPromoted(3)
    /\ Len(json_out_file.content) = 2
    /\ json_out_file.content[1] # json_out_file.content[2]

\* C4: among the non-promoted shapes of the page, grouped by canonical path
\* string: a string occurring once is one inline path carrying its placement
\* (no definition, no reference); a string occurring n >= 2 times is exactly
\* one shared definition with a page-unique id and exactly n references to
\* that id, one per occurrence offset in order.
OccsOf(d) == {k \in ResidualOccs : OccD(k) = d}
C4_LocalDedup ==
    d_pc = "done" =>
       /\ \A a, b \in 1..Len(OutDefs) : OutDefs[a].id = OutDefs[b].id => a = b
       /\ \A q \in Range(OutDefs) : q.id # 0 /\ q.coord = NoCoord
       /\ \A k \in ResidualOccs :
             LET d == OccD(k)
                 n == Cardinality(OccsOf(d))
                 inl == IndicesOf(OutBody, LAMBDA e : e.tag = "path" /\ e.d = d)
                 dfs == IndicesOf(OutDefs, LAMBDA q : q.d = d)
             IN IF n = 1
                THEN /\ Cardinality(inl) = 1
                     /\ dfs = {}
                     /\ \A a \in inl : OutBody[a].coord = OccT(k) /\ OutBody[a].id = 0
                ELSE /\ inl = {}
                     /\ Cardinality(dfs) = 1
                     /\ \A a \in dfs :
                           LET refs == IndicesOf(OutBody,
                                   LAMBDA e : e.tag = "use" /\ e.href = OutDefs[a].id)
                           IN /\ Cardinality(refs) = n
                              /\ \A j \in 1..n :
                                    OutBody[NthOf(refs, j)].coord =
                                       OccT(NthOf(OccsOf(d), j))
       /\ \A e \in Range(OutBody) :
             e.tag = "use" => \E q \in Range(OutDefs) : q.id = e.href

\* a page with the same non-promoted shape 3 times at distinct offsets:
\* one definition and 3 references
C4_Witness ==
    /\ d_pc = "done"
    /\ Len(in_svg) = 3
    /\ ResidualOccs = {1, 2, 3}
    /\ OccD(1) = OccD(2) /\ OccD(2) = OccD(3)
    /\ Cardinality({OccT(1), OccT(2), OccT(3)}) = 3
    /\ Len(OutDefs) = 1
    /\ Len(OutBody) = 3
    /\ \A e \in Range(OutBody) : e.tag = "use"

\* C5: one TextRun entry per promoted occurrence and one residual placement
\* (inline path or reference) per non-promoted occurrence, so the TextRun
\* length plus the residual placements is the page's shape count; a page
\* whose every digest is in FontMeta gives a TextRun as long as the page and
\* a residual graphic without any shape.
RECURSIVE SumUses(_, _)
SumUses(items, k) ==
    IF k > Len(items) THEN 0 ELSE Len(items[k].uses) + SumUses(items, k + 1)

C5_OnePlacementPerOccurrence ==
    /\ d_pc \in {"loop", "raised", "done"} =>
          /\ Len(font_uses) = Cardinality(PromotedOccs)
          /\ SumUses(path_dict, 1) = Cardinality(ResidualOccs)
          /\ Len(font_uses) + SumUses(path_dict, 1) = path_idx - 1
    /\ d_pc = "done" =>
          /\ path_idx - 1 = Len(in_svg)
          /\ Len(json_out_file.content) = Cardinality(PromotedOccs)
          /\ Len(OutBody) = Cardinality(ResidualOccs)
          /\ Len(json_out_file.content) + Len(OutBody) = Len(in_svg)
          /\ (\A k \in 1..Len(in_svg) : OccPromoted(k)) =>
                /\ Len(json_out_file.content) = Len(in_svg)
                /\ OutBody = <<>>
                /\ OutDefs = <<>>

\* a written page of 3 shapes, all promoted: 3 entries, nothing residual
C5_Witness ==
    /\ d_pc = "done"
    /\ Len(in_svg) = 3
    /\ \A k \in 1..3 : OccPromoted(k)
    /\ Len(json_out_file.content) = 3
    /\ Len(OutBody) = 0

(***************************************************************************)
(* Properties of the font build (SpecBuild, SpecAssemble)                  *)
(***************************************************************************)
\* Occurrences of digest h in the corpus: (file, index) of every shape with
\* a payload whose stripped text has that digest
OccurrencesIn(pages, names, h) ==
    {o \in UNION {{<<n, k>> : k \in 1..Len(pages[n])} : n \in names} :
        /\ pages[o[1]][o[2]] # None
        /\ Hash(RStrip(pages[o[1]][o[2]])) = h}

GlyphsDone == 1..(glyph_idx - 1)
GlyphWidthOf(k) == BBox(glyphs[k])[3] - BBox(glyphs[k])[1]
GlyphHeightOf(k) == BBox(glyphs[k])[4] - BBox(glyphs[k])[2]
GlyphFits(k) ==
    LET box == BBox(glyphs[k]) IN
    /\ box # <<>>
    /\ box[3] - box[1] <= 100
    /\ box[4] - box[2] <= 100
\* the accepted ones among glyphs k..last, in list order
RECURSIVE AcceptedFrom(_, _)
AcceptedFrom(k, last) ==
    IF k > last THEN <<>>
    ELSE (IF GlyphFits(k) THEN <<k>> ELSE <<>>) \o AcceptedFrom(k + 1, last)
CodePointOf(k) == font_dict[Hash(glyphs[k])].code_point

\* Codepoints of general category Letter, Number, Punctuation or Symbol
CategoryLNPS(c) == c \in (33..126) \cup (161..172) \cup (174..767)

\* the codepoints FontMeta holds for the glyphs acc[j], acc[j+1], ...
RECURSIVE AssignedTo(_, _)
AssignedTo(acc, j) ==
    IF j > Len(acc) THEN <<>>
    ELSE <<CodePointOf(acc[j])>> \o AssignedTo(acc, j + 1)

\* n is the smallest codepoint above c in an accepted category
IsNextLNPS(c, n) ==
    /\ n > c
    /\ CategoryLNPS(n)
    /\ \A q \in (c + 1)..(n - 1) : ~CategoryLNPS(q)

\* C7: the first accepted glyph gets codepoint 33 and each later accepted
\* glyph the smallest codepoint above the previous accepted glyph's whose
\* category is Letter, Number, Punctuation or Symbol (the r-th accepted
\* glyph gets the r-th such codepoint from 33 on); so the codepoints of
\* FontMeta are pairwise distinct, strictly increasing in acceptance order,
\* all of an accepted category, and a rejected shape consumes no codepoint.
C7_CodePointAssignment ==
    /\ f_pc \in {"loop", "done"} =>
          /\ CategoryLNPS(code_point)
          /\ font_dict = EmptyDict => code_point = 33
          /\ \A k \in {glyph_idx - 1} \cap (2..Len(glyphs)) :
                /\ (GlyphFits(k) /\ GlyphFits(k - 1)) =>
                      IsNextLNPS(CodePointOf(k - 1), CodePointOf(k))
                /\ GlyphFits(k) => IsNextLNPS(CodePointOf(k), code_point)
                /\ (~GlyphFits(k) /\ GlyphFits(k - 1)) =>
                      IsNextLNPS(CodePointOf(k - 1), code_point)
    /\ f_pc = "done" =>
          LET acc == AcceptedFrom(1, Len(glyphs))
              cps == AssignedTo(acc, 1)
              n == Len(acc)
          IN
          /\ DOMAIN font_dict = {Hash(glyphs[acc[j]]) : j \in 1..n}
          /\ Cardinality(DOMAIN font_dict) = n
          /\ font_meta_file.content = font_dict
          /\ n > 0 => cps[1] = 33
          /\ \A j \in 1..n : CategoryLNPS(cps[j])
          /\ \A j \in 1..(n - 1) : IsNextLNPS(cps[j], cps[j + 1])
          /\ \A i, j \in 1..n : i < j => cps[i] < cps[j]
          /\ Cardinality({c \in 33..(code_point - 1) : CategoryLNPS(c)}) = n

\* a finished font whose first glyph was rejected, whose second glyph got 33
\* and in which the codepoints 126, 161, 172 and 174 follow one another
C7_Witness ==
    /\ f_pc = "done"
    /\ ~GlyphFits(1)
    /\ \A k \in 2..Len(glyphs) : GlyphFits(k)
    /\ CodePointOf(2) = 33
    /\ CodePointOf(95) = 126
    /\ CodePointOf(96) = 161
    /\ CodePointOf(107) = 172
    /\ CodePointOf(108) = 174

\* C8: a shape whose bounding box is wider or higher than 100 is never a key
\* of FontMeta and the build goes on with the next shape; a shape whose
\* width and height are both at most 100 (exactly 100 included) is not
\* rejected for its size.
C8_OversizedNeverInFontMeta ==
    /\ f_pc \in {"loop", "done"} =>
          \A k \in (IF f_pc = "done" THEN GlyphsDone ELSE {glyph_idx - 1})
                      \cap (1..Len(glyphs)) :
             BBox(glyphs[k]) # <<>> =>
                (Hash(glyphs[k]) \in DOMAIN font_dict
                    <=> (GlyphWidthOf(k) <= 100 /\ GlyphHeightOf(k) <= 100))
    /\ f_pc = "done" =>
          /\ glyph_idx = Len(glyphs) + 1
          /\ \A h \in DOMAIN font_dict :
                /\ font_dict[h].bbox[3] - font_dict[h].bbox[1] <= 100
                /\ font_dict[h].bbox[4] - font_dict[h].bbox[2] <= 100

\* a finished font: a 200x50 shape and a 50x101 shape were left out, the
\* 100x100 shape and the shapes after the rejected ones are in it
C8_Witness ==
    /\ f_pc = "done"
    /\ \A k \in {1, 2, 95} : BBox(glyphs[k]) # <<>>
    /\ GlyphWidthOf(1) = 200 /\ GlyphHeightOf(1) = 50
    /\ Hash(glyphs[1]) \notin DOMAIN font_dict
    /\ GlyphWidthOf(2) = 100 /\ GlyphHeightOf(2) = 100
    /\ Hash(glyphs[2]) \in DOMAIN font_dict
    /\ GlyphHeightOf(95) = 101
    /\ Hash(glyphs[95]) \notin DOMAIN font_dict
    /\ Hash(glyphs[96]) \in DOMAIN font_dict

\* C9: two font-build runs over the same corpus with the same threshold
\* produce identical FontMeta (same digests, same codepoint and bounding box
\* for every digest), whatever the order in which the directory listings
\* return the files: the FontMeta of the finished run equals that of a run
\* for every other order, and so does the saved metadata file.
C9_FontMetaDeterministic ==
    (b_pc = "font" /\ f_pc = "done") =>
       /\ font_meta_file.content = font_dict
       /\ \A l1, l2 \in Listings(DOMAIN traced) :
             BuildFontMeta(traced, limit, l1, l2) = font_dict

\* a finished run over two pages, each the only page of a promoted shape
\* that is in FontMeta: the order of the pages decides the codepoints
C9_Witness ==
    /\ b_pc = "font"
    /\ f_pc = "done"
    /\ Cardinality(DOMAIN traced) = 2
    /\ Len(scanned) = 2
    /\ \E h1, h2 \in DOMAIN font_dict :
          /\ h1 # h2
          /\ OccurrencesIn(traced, {scanned[1]}, h1) # {}
          /\ OccurrencesIn(traced, {scanned[2]}, h1) = {}
          /\ OccurrencesIn(traced, {scanned[2]}, h2) # {}
          /\ OccurrencesIn(traced, {scanned[1]}, h2) = {}
          /\ font_dict[h1].code_point < font_dict[h2].code_point

\* The shapes of the scanned pages: <<j, k>> is shape k of page scanned[j]
ScanPositions ==
    {p \in UNION {{<<j, k>> : k \in 1..Len(svg_dir[scanned[j]])} :
                     j \in 1..Len(scanned)} :
        svg_dir[scanned[p[1]]][p[2]] # None}
ShapeAt(p) == RStrip(svg_dir[scanned[p[1]]][p[2]])
DigestAt(p) == Hash(ShapeAt(p))
ScanBefore(p, q) == p[1] < q[1] \/ (p[1] = q[1] /\ p[2] < q[2])
FirstOccurrence(h) ==
    CHOOSE p \in ScanPositions :
       /\ DigestAt(p) = h
       /\ \A q \in ScanPositions : DigestAt(q) = h => ~ScanBefore(q, p)
\* the wanted digests that occur in the scanned pages
FoundDigests == {h \in selected : \E p \in ScanPositions : DigestAt(p) = h}
\* the pending set when the scan reaches page scanned[j]
PendingBefore(j) ==
    selected \ {DigestAt(p) : p \in {q \in ScanPositions : q[1] < j}}

\* the pages are scanned in ascending string order of their names, none
\* left out before the last scanned one
ScannedInLexicographicOrder ==
    /\ Range(scanned) \subseteq DOMAIN svg_dir
    /\ \A i, j \in 1..Len(scanned) : i < j => StrLess(scanned[i], scanned[j])
    /\ \A n \in DOMAIN svg_dir \ Range(scanned) :
          \A j \in 1..Len(scanned) : StrLess(scanned[j], n)

\* one representative per found digest, the shape of its first occurrence,
\* the representatives in the order of the first occurrences
RepresentativesByFirstOccurrence ==
    /\ Len(glyphs) = Cardinality(FoundDigests)
    /\ to_ttf = selected \ FoundDigests
    /\ \A h \in FoundDigests :
          \E i \in 1..Len(glyphs) :
             /\ glyphs[i] = ShapeAt(FirstOccurrence(h))
             /\ \A j \in 1..Len(glyphs) : Hash(glyphs[j]) = h => j = i
    /\ \A i \in 1..Len(glyphs) : Hash(glyphs[i]) \in FoundDigests
    /\ \A i, j \in 1..Len(glyphs) :
          i < j => ScanBefore(FirstOccurrence(Hash(glyphs[i])),
                              FirstOccurrence(Hash(glyphs[j])))

\* C10: find_glyphs scans the pages in lexicographic order of their names;
\* every wanted digest that occurs in the scanned pages has exactly one
\* representative, the shape of its first occurrence in that order; the
\* representatives are in the order of the first occurrences; and no page
\* is scanned once the pending set is empty, that is, the pending set was
\* not empty when the scan reached any of the scanned pages (and the scan
\* ends before the last page only with an empty pending set). Stated of the
\* state find_glyphs returns in.
C10_FindGlyphsFirstOccurrence ==
    (b_pc = "font" /\ f_pc = "begin") =>
       /\ ScannedInLexicographicOrder
       /\ RepresentativesByFirstOccurrence
       /\ Len(scanned) < Cardinality(DOMAIN svg_dir) => to_ttf = {}
       /\ \A j \in 1..Len(scanned) : PendingBefore(j) # {}

\* What find_glyphs does keep to: as C10, but a page is scanned with an
\* empty pending set only if it is the first one
C10_StopsAfterPageWithNothingPending ==
    (b_pc = "font" /\ f_pc = "begin") =>
       /\ ScannedInLexicographicOrder
       /\ RepresentativesByFirstOccurrence
       /\ Len(scanned) < Cardinality(DOMAIN svg_dir) => to_ttf = {}
       /\ \A j \in 2..Len(scanned) : PendingBefore(j) # {}
       /\ Len(scanned) >= 1

\* nothing was promoted, and still the first page was scanned
C10_ScannedWithNothingPending ==
    /\ b_pc = "font"
    /\ selected = {}
    /\ Len(scanned) = 1
    /\ glyphs = <<>>

\* two pages, named 10 and 2: 10 was scanned first, the scan ended there
\* although page 2 holds the promoted shape as well
C10_EarlyStop ==
    /\ b_pc = "font"
    /\ scanned = << <<1, 0>> >>
    /\ Cardinality(DOMAIN svg_dir) = 2
    /\ glyphs # <<>>
    /\ OccurrencesIn(svg_dir, {<<2>>}, Hash(glyphs[1])) # {}


(***************************************************************************)
(* Properties of the counter (SpecCounter)                                 *)
(***************************************************************************)
\* the number of add_string calls made with a string of digest h
TimesAdded(h) == Cardinality({k \in 1..Len(c_log) : Hash(c_log[k]) = h})
CountOf(count, h) == IF h \in DOMAIN count THEN count[h] ELSE 0
LoggedDigests == {Hash(c_log[k]) : k \in 1..Len(c_log)}

\* C11: add_string raises the count of exactly the digest of its argument
\* by 1 (from absent to 1 the first time) and leaves every other count
\* unchanged; get_count returns 0 for a string never added and n after n
\* additions; no count ever decreases, whoever adds to the counter.
C11_AddStringAndGetCount ==
    /\ [](\A string \in CounterStrings :
             get_count(c_count, string) = TimesAdded(Hash(string)))
    /\ [](DOMAIN c_count = LoggedDigests)
    /\ [][c_mode = "calls" =>
            \E string \in CounterStrings :
               /\ c_log' = Append(c_log, string)
               /\ DOMAIN c_count' = DOMAIN c_count \cup {Hash(string)}
               /\ c_count'[Hash(string)] = CountOf(c_count, Hash(string)) + 1
               /\ \A h \in DOMAIN c_count \ {Hash(string)} :
                     c_count'[h] = c_count[h]]_cvars
    /\ [][\A h \in DOMAIN c_count :
             h \in DOMAIN c_count' /\ c_count'[h] >= c_count[h]]_cvars

\* a counter that holds 2 for a string added twice, 1 for the same string
\* with trailing blanks (another digest) and nothing for a string not added
C11_Witness ==
    /\ c_mode = "calls"
    /\ get_count(c_count, PathSmall) = 2
    /\ get_count(c_count, PathSmallPadded) = 1
    /\ get_count(c_count, PathCell) = 0
    /\ Hash(PathCell) \notin DOMAIN c_count


\* the digests that occur in the pages named
DigestsIn(pages, names) ==
    {Hash(RStrip(pages[n][k])) :
        <<n, k>> \in {o \in UNION {{<<n2, k2>> : k2 \in 1..Len(pages[n2])} :
                                      n2 \in names} : pages[o[1]][o[2]] # None}}

\* C12: the counter obtained from a set of pages is the same for every order
\* in which the pages are counted: whatever the order so far, every digest's
\* count is the number of its occurrences in the pages counted, and the
\* counter of the whole corpus equals the one computed for every order of
\* its pages.
C12_CounterOrderIndependent ==
    c_mode = "scan" =>
       /\ DOMAIN c_count = DigestsIn(c_pages, Range(c_merged))
       /\ \A h \in DOMAIN c_count :
             c_count[h] = Cardinality(OccurrencesIn(c_pages, Range(c_merged), h))
       /\ Len(c_merged) = Cardinality(DOMAIN c_pages) =>
             \A listing \in Listings(DOMAIN c_pages) :
                CountFilesLoop(EmptyDict, listing, c_pages, 1) = c_count

\* three pages counted in an order that is neither the sorted nor the
\* numeric one, with a digest that occurs on more than one page
C12_Witness ==
    /\ c_mode = "scan"
    /\ c_merged = << <<2>>, <<1, 0>>, <<1>> >>
    /\ \E h \in DOMAIN c_count :
          /\ c_count[h] >= 3
          /\ OccurrencesIn(c_pages, {<<2>>}, h) # {}
          /\ OccurrencesIn(c_pages, {<<1>>}, h) # {}
    /\ Cardinality(DOMAIN c_count) = 2


(***************************************************************************)
(* Properties of the canonicalization (SpecCanon)                          *)
(***************************************************************************)
\* C13: round_svg_numbers is idempotent: applied to its own result it
\* returns that result, for every input string.
C13_RoundIdempotent ==
    k_pc = "twice" => k_twice = k_once

\* "M.0.0": the first pass rounds ".0" to "0" and so moves the M next to
\* the rest, "M0.0"; the second pass rounds that to "M0"
C13_SecondPassChanges ==
    /\ k_pc = "twice"
    /\ k_raw[1] = <<"M", ".", "0", ".", "0">>
    /\ k_once[1] = <<"M", "0", ".", "0">>
    /\ k_twice[1] = <<"M", "0">>


\* canonicalize: the numbers rounded and trailing whitespace trimmed, as the
\* hashing sites do it (round_svg_numbers on the svg, rstrip on the d)
Canonicalize(raw) == RStripChars(round_svg_numbers(raw))

C15_ShapeWithoutPayloadSkippedAlone ==
    d_pc \in {"raised", "done"} =>
       /\ svg_out_file # NoFile
       /\ json_out_file # NoFile
       /\ \A k \in 1..Len(in_svg) :
             in_svg[k].d # None =>
                IF OccPromoted(k)
                THEN OccEntry(k) \in Range(json_out_file.content)
                ELSE \E e \in Range(OutBody) : e.coord = OccT(k)

\* deduplicate_svg was left at a shape without d: a shape with d follows
\* it on the page and nothing was written
C15_PageAbandoned ==
    /\ d_pc = "raised"
    /\ in_svg[path_idx].d = None
    /\ path_idx < Len(in_svg)
    /\ in_svg[path_idx + 1].d # None
    /\ svg_out_file = NoFile
    /\ json_out_file = NoFile


(***************************************************************************)
(* Properties of the capture pipeline (screenshot2.py : main)              *)
(***************************************************************************)
\* the screenshots that gave a page: an svg was written for them
CapturedPages == {n \in 1..Len(m_pngs) : m_pngs[n] # "bad_png"}

\* the run was cancelled in the capture loop and nothing but the pages
\* themselves disturbed the post-processing
CancelledRun ==
    /\ m_pc = "exit"
    /\ m_cancelled
    /\ m_abort \in {"none", "page_error"}

\* C16: a page whose processing fails in the scan, the rewrite or the
\* reconstruction is skipped and the batch continues: in the loop that
\* follows the cancellation every page that processes well is still
\* completed in the document and the document is saved.
C16_FailedPageSkippedBatchContinues ==
    CancelledRun =>
        /\ m_pdf_saved
        /\ \A n \in CapturedPages :
              m_pngs[n] = "ok" => \E i \in 1..Len(m_pdf_pages) : m_pdf_pages[i] = n

\* a page failed in the rewrite or in the reconstruction, a good page came
\* after it, and the run ended with no document
C16_PageFailureEndedBatch ==
    /\ CancelledRun
    /\ m_abort = "page_error"
    /\ ~m_pdf_saved
    /\ \E n \in CapturedPages : m_pngs[n] = "ok" /\ n \notin m_tried.render

\* C17: after a cancellation of the capture the font is synthesized, and
\* deduplication and reconstruction are run for every page captured before
\* it; the svg directory and the font file are removed only after that.
C17_CancelStillProcessesAllPages ==
    /\ CancelledRun =>
          /\ m_font_path
          /\ \A n \in CapturedPages : n \in m_tried.dedup /\ n \in m_tried.render
    /\ m_cancelled /\ m_pc \in PostPositions =>
          /\ m_svg_dir_exists
          /\ DOMAIN m_svg_dir = CapturedPages
          /\ m_pc \notin {"post_font", "post_canvas"} => m_font_file

\* cleaned up with a captured page never handed to deduplicate_svg
C17_CleanedUpWithPageUntouched ==
    /\ CancelledRun
    /\ m_remove_svg
    /\ ~m_svg_dir_exists
    /\ \E n \in CapturedPages : n \notin m_tried.dedup

\* C18: when the program has ended, on whatever path, the svg directory is
\* gone if its removal was asked for and no generated font file is left.
C18_TemporariesReleasedOnEveryExit ==
    m_pc = "exit" =>
        /\ m_remove_svg => ~m_svg_dir_exists
        /\ ~m_font_file

\* ended with the font file on disk
C18_FontFileLeft ==
    /\ m_pc = "exit"
    /\ m_font_file
    /\ ~m_font_path

\* C19: with adb unavailable the capture is aborted and the failure is
\* reported once; what was written before stays as it was.
C19_AdbUnavailableReportedOnce ==
    /\ m_reports <= 1
    /\ ~m_adb /\ m_reports >= 1 => m_pc # "capture"
    /\ m_pc = "capture" => \A n \in CapturedPages :
          n \in DOMAIN m_svg_dir /\ m_svg_dir[n].svg = "traced"

\* the loop is still turning after more than one report
C19_LoopGoesOnReporting ==
    /\ m_pc = "capture"
    /\ ~m_adb
    /\ m_reports > 1


(***************************************************************************)
(* Properties of the reconstruction under a change of one entry            *)
(***************************************************************************)
GlyphsOf(code) == SelectSeq(code, LAMBDA o : o.op = "Tj")
MovesOf(code) == SelectSeq(code, LAMBDA o : o.op = "Td")

\* the entries that differ from e in their coordinates only
Moved(e) == {f \in RunEntries : f[1] = e[1] /\ <<f[2], f[3]>> # <<e[2], e[3]>>}

\* the TextRun with entry k replaced by f, rendered on the same page
RenderedWith(k, f) == render_text([uses_file EXCEPT ![k] = f], height)

\* C20 (as amended): changing the coordinates of entry k alone changes the
\* rendered position of entry k and of no other entry: every other glyph
\* is still drawn at (x_i, H - y_i). Of the cursor moves only the one
\* before entry k and the one before entry k + 1 can change.
C20_CoordinateChangeIsLocal ==
    r_pc = "done" =>
        /\ canvas_text = <<render_text(uses_file, height)>>
        /\ \A k \in 1..Len(uses_file) : \A f \in Moved(uses_file[k]) :
              LET other == RenderedWith(k, f) IN
              /\ Len(GlyphsOf(other)) = Len(DrawnGlyphs)
              /\ GlyphsOf(other)[k].a # DrawnGlyphs[k].a
              /\ \A j \in 1..Len(DrawnGlyphs) :
                    j # k => GlyphsOf(other)[j] = DrawnGlyphs[j]
              /\ \A j \in 1..Len(CursorMoves) :
                    j \notin {k - 1, k} => MovesOf(other)[j] = CursorMoves[j]

\* C20 (as stated): changing the coordinates of entry k alone changes the
\* rendered position of every entry after k.
C20_CoordinateChangeShiftsLaterEntries ==
    r_pc = "done" =>
        \A k \in 1..Len(uses_file) : \A f \in Moved(uses_file[k]) :
           \A j \in (k + 1)..Len(uses_file) :
              GlyphsOf(RenderedWith(k, f))[j].a # DrawnGlyphs[j].a

\* a run of three entries was rendered, and with its first entry moved
\* the second and the third glyph are drawn where they were
C20_Witness ==
    /\ r_pc = "done"
    /\ height = 100
    /\ uses_file = <<(<<65, 10, 20>>), (<<66, 15, 25>>), (<<65, 10, 25>>)>>
    /\ LET other == GlyphsOf(RenderedWith(1, <<65, 15, 25>>)) IN
          /\ other[1].a = <<15, 75>>
          /\ DrawnGlyphs[1].a = <<10, 80>>
          /\ other[2].a = <<15, 75>> /\ DrawnGlyphs[2].a = <<15, 75>>
          /\ other[3].a = <<10, 75>> /\ DrawnGlyphs[3].a = <<10, 75>>


(***************************************************************************)
(* Properties of the outline handed to the font compiler (make_svg)        *)
(***************************************************************************)
\* C21: every accepted representative is handed over in a cell whose
\* corner is the minimum corner of its bounding box and whose extent is the
\* 100-unit glyph cell; two representatives that differ by a translation
\* only are handed over with the same cell extent and the same local
\* outline.
C21_OutlineInLocalFixedCell ==
    /\ \A i \in DOMAIN o_imported :
          /\ CellOrigin(o_imported[i]) = <<BBox(o_glyphs[i])[1], BBox(o_glyphs[i])[2]>>
          /\ CellExtent(o_imported[i]) = <<CellSize, CellSize>>
    /\ o_pc = "done" /\ DOMAIN o_imported = {1, 2} =>
          /\ CellExtent(o_imported[1]) = CellExtent(o_imported[2])
          /\ LocalOutline(o_imported[1]) = LocalOutline(o_imported[2])

\* two accepted shapes that differ by a translation were handed over in
\* cells of different extent, with the same local outline
C21_CellExtentFollowsPosition ==
    /\ o_pc = "done"
    /\ DOMAIN o_imported = {1, 2}
    /\ o_glyphs[1] = PathSmall
    /\ o_glyphs[2] = Translated(PathSmall, ShiftStep, 0)
    /\ CellExtent(o_imported[1]) = <<100, 100>>
    /\ CellExtent(o_imported[2]) = <<110, 100>>
    /\ LocalOutline(o_imported[1]) = LocalOutline(o_imported[2])


(***************************************************************************)
(* Rounding of single operands (SpecOperand)                               *)
(***************************************************************************)
\* the text "1.th" with trailing zeros and a trailing point stripped
TwoPlaces(t, h) == FormatRounded(FALSE, 100 + 10 * DigitValue(t) + DigitValue(h))

\* C22: every numeric operand is rounded to two decimal places, trailing
\* zeros and a trailing point stripped, whatever letter or separator stands
\* before it; two operands that differ only beyond the second decimal place
\* get the same text and the same digest.
C22_EveryOperandRounded ==
    k_pc \in {"once", "twice"} =>
        /\ \A i \in {1, 2} :
              k_once[i] = <<k_raw[i][1]>> \o TwoPlaces(k_raw[i][4], k_raw[i][5])
        /\ k_once[1] = k_once[2]
        /\ k_digest[1] = k_digest[2]

\* "L1.204" and "L1.2" stay as they are and get two digests, while
\* "M1.204" would become "M1.2"
C22_OperandAfterLNotRounded ==
    /\ k_pc = "once"
    /\ k_raw = << <<"L", "1", ".", "2", "0", "4">>, <<"L", "1", ".", "2", "0">> >>
    /\ k_once = k_raw
    /\ k_digest[1] # k_digest[2]
    /\ round_svg_numbers(<<"M", "1", ".", "2", "0", "4">>) = <<"M", "1", ".", "2">>


(***************************************************************************)
(* Properties of the page size (SpecSize)                                  *)
(***************************************************************************)
\* the page size the first screenshot gives
FirstPagesize == CroppedPagesize(z_pngs[1], z_crop_top, z_crop_bottom)

PagesizeFromFirstPage ==
    /\ z_pagesize # NonePagesize =>
          /\ Len(z_pngs) >= 1
          /\ z_pngs[1] # Unreadable
          /\ z_pagesize = FirstPagesize
    /\ z_pagesize = NonePagesize =>
          Len(z_pngs) = 0 \/ z_pngs[1] = Unreadable
    /\ z_canvas # <<>> => z_canvas[1] = z_pagesize
    /\ \A i \in 1..Len(z_heights) : z_heights[i] = FirstPagesize[2]

\* C23: the page size of the document is computed once, from the first
\* page's dimensions minus the top and bottom crop margins, and no later
\* page changes it; the canvas and every page drawn use it.
C23_PagesizeFixedByFirstPage ==
    /\ []PagesizeFromFirstPage
    /\ [][z_pagesize # NonePagesize => z_pagesize' = z_pagesize]_zvars

\* two screenshots of different dimensions with a crop at both ends, both
\* pages drawn with the height of the first
C23_Witness ==
    /\ z_pc = "exit"
    /\ z_crop_top = 50
    /\ z_crop_bottom = 30
    /\ z_pngs = <<(<<600, 800>>), (<<800, 600>>)>>
    /\ z_pagesize = <<600, 720>>
    /\ z_canvas = << <<600, 720>> >>
    /\ z_heights = <<720, 720>>


(***************************************************************************)
(* Properties of the scan of a page (SpecScan)                             *)
(***************************************************************************)
\* the counter that holds every shape of the saved pages among the first n
\* screenshots and nothing else
RECURSIVE CountOfSaved(_)
CountOfSaved(n) ==
    IF n = 0 THEN EmptyDict
    ELSE IF n \in a_saved
         THEN CountLoop(CountOfSaved(n - 1), a_pages[n].paths, 1)
         ELSE CountOfSaved(n - 1)

\* C24: the scan of a page is atomic for the counter: every screenshot
\* gone through is either saved, with all its shapes counted, or skipped
\* with a message, with the counter as it was before it; no count comes
\* from a page without a saved svg file.
C24_ScanAtomic ==
    /\ \A n \in 1..(a_idx - 1) : (n \in a_saved) # (n \in a_errors)
    /\ a_count = CountOfSaved(a_idx - 1)

\* count.py: the first page has a shape and then a path without d; its
\* shape was counted, the page was skipped and has no svg file
C24_CountedWithoutSvg ==
    /\ a_module = "count"
    /\ a_pc = "done"
    /\ a_pages[1] = [readable |-> TRUE, paths |-> <<PathSmall, None>>]
    /\ 1 \notin a_saved
    /\ 1 \in a_errors
    /\ Hash(PathSmall) \in DOMAIN a_count
    /\ a_pages[2].paths = <<>>


(***************************************************************************)
(* Properties of the document built by convert_to_pdf (SpecConvert)        *)
(***************************************************************************)
\* C25: every page of the document holds the residual graphic and the text
\* run of exactly one input page; a page whose reconstruction failed after
\* part of it was drawn leaves nothing on the output page of a later one.
C25_OneInputPagePerOutputPage ==
    /\ \A i \in 1..Len(p_out) :
          \E n \in 1..Len(p_pages) : p_out[i] = <<Graphic(n), TextRun(n)>>
    /\ \A i \in 1..Len(p_out) : \A j \in 1..Len(p_out[i]) :
          p_out[i][j].page \notin p_errors

\* the json of the first file could not be loaded: its graphic is on the
\* one page of the document, under the graphic and the text of the second
C25_GraphicCarriedOver ==
    /\ p_saved
    /\ p_pages = <<[drawing |-> TRUE, json |-> FALSE],
                   [drawing |-> TRUE, json |-> TRUE]>>
    /\ p_errors = {1}
    /\ p_out = << <<Graphic(1), Graphic(2), TextRun(2)>> >>

====
